---- MODULE Spec2Model ----
(***************************************************************************)
(* The patch application engine of opencode (src/opencode/patch/index.py): *)
(* the fuzzy line locator, the replacement engine, the patch parser and    *)
(* the file-system applier.                                                *)
(*                                                                         *)
(* Python strings are TLA+ strings (Len, \o and SubSeq work on them).      *)
(* Indices are 0-based as in the source; Nth(s, i) reads element i.        *)
(*                                                                         *)
(* TLA+ strings are ASCII, so each non-ASCII code point that               *)
(* _normalize_unicode names is written as one ASCII character that the     *)
(* model's texts do not otherwise use:                                     *)
(*    U+2018 /   U+2019 ^   U+201A ~   U+201B |      (single quotes)       *)
(*    U+201C {   U+201D }   U+201E [   U+201F ]      (double quotes)       *)
(*    U+2010 #   U+2011 $   U+2012 %   U+2013 &   U+2014 !   U+2015 ?      *)
(*    U+2026 ;   (ellipsis)            U+00A0 =   (no-break space)         *)
(***************************************************************************)
EXTENDS Integers, Sequences, FiniteSets, TLC

VARIABLES
    \* _seek_sequence(lines, pattern, start_index, eof) and its result
    sk_lines, sk_pattern, sk_start_index, sk_eof, sk_result, sk_pc,
    \* derive_new_contents_from_chunks: the file's text, the locals of
    \* _compute_replacements (chunk is the loop variable, n_chunks counts the
    \* chunks taken from the list) and the returned content and diff
    original_content, original_lines, chunk, n_chunks, line_index,
    replacements, new_lines, new_content, unified_diff, dn_pc,
    \* apply_hunks_to_files: the file system (the files that exist, by path),
    \* the loop variable hunk, the number of hunks taken from the list, the
    \* three path lists and the error raised
    fs, hunk, n_hunks, added, modified, deleted, ap_error, ap_pc,
    \* what the caller of apply_hunks_to_files receives
    ap_result,
    \* parse_patch: its argument, its locals lines, begin_idx, end_idx, i and
    \* hunks, and where it is
    patch_text, pp_lines, begin_idx, end_idx, pp_i, hunks, pp_pc,
    \* ApplyPatchTool.execute: the files under project_dir, its locals hunks
    \* (with the number of hunks taken from the list), files_added,
    \* files_modified and files_deleted, where it is and the dict it returns
    tool_fs, tool_hunks, tool_n, files_added, files_modified, files_deleted,
    tool_pc, tool_return,
    \* EventBus: self._subscriptions (by event type, an absent key read as the
    \* empty list), the arguments and the payload of the running publish, the
    \* position of the list iterator of its current loop, where it is, and two
    \* records of the run: the lists as they were when publish was called and
    \* the calls made to the callbacks
    _subscriptions, event_type, properties, payload, bus_i, bus_pc,
    subscribed_at_call, invoked, n_publish,
    \* the id module: the clock that time.time() reads, in milliseconds, the
    \* globals _last_timestamp and _counter, and the IDs returned so far, each
    \* with its arguments and the clock at the call. A number that the 32-bit
    \* integers of the model cannot hold is a sequence of hexadecimal digits,
    \* least significant first and without leading zeros.
    clock, _last_timestamp, _counter, issued, n_ticks

seekVars == <<sk_lines, sk_pattern, sk_start_index, sk_eof, sk_result, sk_pc>>

deriveVars == <<original_content, original_lines, chunk, n_chunks, line_index,
                replacements, new_lines, new_content, unified_diff, dn_pc>>

applyVars ==
    <<fs, hunk, n_hunks, added, modified, deleted, ap_error, ap_pc, ap_result>>

parseVars == <<patch_text, pp_lines, begin_idx, end_idx, pp_i, hunks, pp_pc>>

toolVars == <<tool_fs, tool_hunks, tool_n, files_added, files_modified,
              files_deleted, tool_pc, tool_return>>

busVars == <<_subscriptions, event_type, properties, payload, bus_i, bus_pc,
             subscribed_at_call, invoked, n_publish>>

idVars == <<clock, _last_timestamp, _counter, issued, n_ticks>>

vars == <<seekVars, deriveVars, applyVars, parseVars, toolVars, busVars, idVars>>

----------------------------------------------------------------------------
(* Bounds of the model.                                                    *)

MaxSeekLines == 3
MaxSeekPat == 2
\* lines of the file text, counting the empty line after a final line feed
MaxParts == 3
\* chunks of one Update hunk
MaxChunks == 2
\* hunks of one patch
MaxHunks == 3
\* lines of a free-form patch document
MaxDocLines == 3
\* lines between the markers of a framed patch document
MaxBodyLines == 4
\* lines after the header of a single-record patch document
MaxRecordLines == 4
\* lines between the markers of a patch document that is parsed and applied
MaxPatchLines == 3

\* subscriptions held by the bus, and publish calls of a run
MaxSubscriptions == 3

MaxPublishes == 2

\* calls of ascending and descending, and milliseconds that pass, in a run
MaxCalls == 3

MaxTicks == 2

----------------------------------------------------------------------------
(* Python str and list primitives.                                         *)

None == "None"

\* s[i] for a 0-based index i of a sequence
Nth(s, i) == s[i + 1]

\* s[i] for a 0-based index i of a string
CharAt(s, i) == SubSeq(s, i + 1, i + 1)

\* s[a:b] for 0 <= a, b (clamped as Python clamps a slice)
Slice(s, a, b) ==
    LET hi == IF b > Len(s) THEN Len(s) ELSE b
    IN IF a >= hi THEN SubSeq(s, 1, 0) ELSE SubSeq(s, a + 1, hi)

StartsWith(s, p) == Len(s) >= Len(p) /\ SubSeq(s, 1, Len(p)) = p

\* str.isspace() for one character ("=" is U+00A0)
Whitespace == {" ", "\t", "\n", "\r", "\f", "="}

RECURSIVE rstrip(_)
rstrip(s) ==
    IF s = "" THEN ""
    ELSE IF SubSeq(s, Len(s), Len(s)) \in Whitespace
         THEN rstrip(SubSeq(s, 1, Len(s) - 1))
         ELSE s

RECURSIVE lstrip(_)
lstrip(s) ==
    IF s = "" THEN ""
    ELSE IF SubSeq(s, 1, 1) \in Whitespace
         THEN lstrip(SubSeq(s, 2, Len(s)))
         ELSE s

strip(s) == lstrip(rstrip(s))

\* text.split("\n"): always at least one element
RECURSIVE SplitFrom(_, _, _)
SplitFrom(s, i, cur) ==
    IF i > Len(s) THEN <<cur>>
    ELSE IF SubSeq(s, i, i) = "\n"
         THEN <<cur>> \o SplitFrom(s, i + 1, "")
         ELSE SplitFrom(s, i + 1, cur \o SubSeq(s, i, i))

split(s) == SplitFrom(s, 1, "")

\* "\n".join(parts)
RECURSIVE join(_)
join(parts) ==
    IF parts = <<>> THEN ""
    ELSE IF Len(parts) = 1 THEN parts[1]
         ELSE parts[1] \o "\n" \o join(Tail(parts))

SetMin(S) == CHOOSE m \in S : \A n \in S : m <= n

----------------------------------------------------------------------------
(* UnicodeNormalizer.                                                      *)

_normalize_char(c) ==
    IF c \in {"/", "^", "~", "|"} THEN "'"
    ELSE IF c \in {"{", "}", "[", "]"} THEN "\""
    ELSE IF c \in {"#", "$", "%", "&", "!", "?"} THEN "-"
    ELSE IF c = ";" THEN "..."
    ELSE IF c = "=" THEN " "
    ELSE c

RECURSIVE _normalize_unicode(_)
_normalize_unicode(text) ==
    IF text = "" THEN ""
    ELSE _normalize_char(SubSeq(text, 1, 1))
             \o _normalize_unicode(SubSeq(text, 2, Len(text)))

----------------------------------------------------------------------------
(* HunkLocator: _seek_sequence and its four comparison passes.             *)

\* the compare_func of each pass
compare_func(pass, a, b) ==
    IF pass = "exact" THEN a = b
    ELSE IF pass = "rstrip" THEN rstrip(a) = rstrip(b)
    ELSE IF pass = "trim" THEN strip(a) = strip(b)
    ELSE _normalize_unicode(strip(a)) = _normalize_unicode(strip(b))

\* all(compare_func(lines[i + j], pattern[j]) for j in range(len(pattern)))
WindowMatches(pass, lines, pattern, i) ==
    \A j \in 0 .. (Len(pattern) - 1) :
        compare_func(pass, Nth(lines, i + j), Nth(pattern, j))

\* a slip that anchors at the end of the file without looking at the cursor
try_match_eof_ignores_start(pass, lines, pattern, start_index, eof) ==
    LET from_end == Len(lines) - Len(pattern)
        fwd == {i \in start_index .. (Len(lines) - Len(pattern)) :
                    WindowMatches(pass, lines, pattern, i)}
    IN IF eof /\ from_end >= 0 /\ WindowMatches(pass, lines, pattern, from_end)
       THEN from_end
       ELSE IF fwd = {} THEN -1 ELSE SetMin(fwd)

\* a slip that never tries the end of the file first
try_match_scans_forward_only(pass, lines, pattern, start_index, eof) ==
    LET fwd == {i \in start_index .. (Len(lines) - Len(pattern)) :
                    WindowMatches(pass, lines, pattern, i)}
    IN IF fwd = {} THEN -1 ELSE SetMin(fwd)

try_match(pass, lines, pattern, start_index, eof) ==
    LET from_end == Len(lines) - Len(pattern)
        fwd == {i \in start_index .. (Len(lines) - Len(pattern)) :
                    WindowMatches(pass, lines, pattern, i)}
    IN IF eof /\ from_end >= start_index
          /\ WindowMatches(pass, lines, pattern, from_end)
       THEN from_end
       ELSE IF fwd = {} THEN -1 ELSE SetMin(fwd)

\* a slip that tries the loosest comparison first
Passes_loosest_first == <<"normalized", "trim", "rstrip", "exact">>

\* the passes of _seek_sequence in the order it tries them
Passes == <<"exact", "rstrip", "trim", "normalized">>

\* try the passes in order and return the first result that is not -1
RECURSIVE SeekPasses(_, _, _, _, _)
SeekPasses(passes, lines, pattern, start_index, eof) ==
    IF Len(passes) = 1
    THEN try_match(passes[1], lines, pattern, start_index, eof)
    ELSE IF try_match(passes[1], lines, pattern, start_index, eof) # -1
    THEN try_match(passes[1], lines, pattern, start_index, eof)
    ELSE SeekPasses(Tail(passes), lines, pattern, start_index, eof)

\* a slip that forgets the last pass
_seek_sequence_three_passes(lines, pattern, start_index, eof) ==
    IF pattern = <<>> THEN -1
    ELSE SeekPasses(SubSeq(Passes, 1, 3), lines, pattern, start_index, eof)

_seek_sequence(lines, pattern, start_index, eof) ==
    IF pattern = <<>> THEN -1
    ELSE SeekPasses(Passes, lines, pattern, start_index, eof)

----------------------------------------------------------------------------
(* ReplacementEngine: _compute_replacements, _apply_replacements,          *)
(* _generate_unified_diff and derive_new_contents_from_chunks.             *)
(* A chunk is [old_lines, new_lines, change_context, is_end_of_file]; a    *)
(* replacement is the tuple <<start_idx, old_len, new_segment>>.           *)

\* the value of the loop variable before the first iteration
NoChunk == [old_lines |-> <<>>, new_lines |-> <<>>, change_context |-> None,
            is_end_of_file |-> FALSE]

Last(s) == s[Len(s)]
Front(s) == SubSeq(s, 1, Len(s) - 1)

\* Python truth of `chunk.change_context` (None and "" are false)
Truthy(x) == x # None /\ x # ""

\* original_content.split("\n") with the empty last element popped
SplitLines(content) ==
    LET ls == split(content)
    IN IF ls # <<>> /\ Last(ls) = "" THEN Front(ls) ELSE ls

\* the insertion index of a chunk with no old lines
insertion_idx(lines) ==
    IF lines # <<>> /\ Last(lines) = "" THEN Len(lines) - 1 ELSE Len(lines)

\* the outcome of one iteration of `for chunk in chunks`: ok is FALSE where
\* the source raises ValueError; added holds the replacement appended
StepFailed(error, idx) ==
    [ok |-> FALSE, error |-> error, line_index |-> idx, added |-> <<>>]

StepDone(idx, added_) ==
    [ok |-> TRUE, error |-> None, line_index |-> idx, added |-> added_]

\* if found != -1: append and advance the cursor, else raise
Located(pattern, new_slice, idx1, found) ==
    IF found # -1
    THEN StepDone(found + Len(pattern), <<<<found, Len(pattern), new_slice>>>>)
    ELSE StepFailed("lines", idx1)

\* new_slice of the retry: its trailing empty line is removed too
DropTrailingNew(new_slice) ==
    IF new_slice # <<>> /\ Last(new_slice) = "" THEN Front(new_slice) ELSE new_slice

\* a slip that gives up without the retry on a trailing empty old line
Retry_never(lines, c, idx1, found) ==
    Located(c.old_lines, c.new_lines, idx1, found)

\* the retry without a trailing empty old line, given the first result found
Retry(lines, c, idx1, found) ==
    IF found = -1 /\ Last(c.old_lines) = ""
    THEN Located(Front(c.old_lines), DropTrailingNew(c.new_lines), idx1,
                 _seek_sequence(lines, Front(c.old_lines), idx1, c.is_end_of_file))
    ELSE Located(c.old_lines, c.new_lines, idx1, found)

\* the part of the loop body after the context, with the cursor at idx1
LocateOld(lines, c, idx1) ==
    IF c.old_lines = <<>>
    THEN StepDone(idx1, <<<<insertion_idx(lines), 0, c.new_lines>>>>)
    ELSE Retry(lines, c, idx1,
               _seek_sequence(lines, c.old_lines, idx1, c.is_end_of_file))

\* the context part of the loop body, given the index of the context line
AfterContext(lines, c, idx, context_idx) ==
    IF Truthy(c.change_context) /\ context_idx = -1
    THEN StepFailed("context", idx)
    ELSE LocateOld(lines, c, IF Truthy(c.change_context) THEN context_idx + 1 ELSE idx)

\* one iteration of the `for chunk in chunks` loop of _compute_replacements
ComputeStep(lines, c, idx) ==
    AfterContext(lines, c, idx,
                 IF Truthy(c.change_context)
                 THEN _seek_sequence(lines, <<c.change_context>>, idx, FALSE)
                 ELSE -1)

\* replacements.sort(key=lambda x: x[0]): a stable sort
InsertByStart_before_equals(sorted, r) ==
    LET k == Cardinality({i \in 1 .. Len(sorted) : sorted[i][1] < r[1]})
    IN SubSeq(sorted, 1, k) \o <<r>> \o SubSeq(sorted, k + 1, Len(sorted))

InsertByStart(sorted, r) ==
    LET k == Cardinality({i \in 1 .. Len(sorted) : sorted[i][1] <= r[1]})
    IN SubSeq(sorted, 1, k) \o <<r>> \o SubSeq(sorted, k + 1, Len(sorted))

RECURSIVE SortByStart(_)
SortByStart(reps) ==
    IF reps = <<>> THEN <<>>
    ELSE InsertByStart(SortByStart(Front(reps)), Last(reps))

\* result[start:stop] = segment, with Python's clamping of the slice
SliceAssign(result, start, stop, segment) ==
    LET lo == IF start > Len(result) THEN Len(result) ELSE start
        hi0 == IF stop > Len(result) THEN Len(result) ELSE stop
        hi == IF hi0 < lo THEN lo ELSE hi0
    IN SubSeq(result, 1, lo) \o segment \o SubSeq(result, hi + 1, Len(result))

\* for i in range(len(replacements) - 1, -1, -1)
RECURSIVE ApplyFrom(_, _, _)
ApplyFrom(result, reps, i) ==
    IF i < 0 THEN result
    ELSE LET r == Nth(reps, i)
         IN ApplyFrom(SliceAssign(result, r[1], r[1] + r[2], r[3]), reps, i - 1)

_apply_replacements(lines, reps) == ApplyFrom(lines, reps, Len(reps) - 1)

\* if not new_lines or new_lines[-1] != "": new_lines.append("")
EnsureTrailing(ls) ==
    IF ls = <<>> \/ Last(ls) # "" THEN Append(ls, "") ELSE ls

RECURSIVE DiffFrom(_, _, _)
DiffFrom(old, new, i) ==
    LET max_len == IF Len(old) > Len(new) THEN Len(old) ELSE Len(new)
        old_line == IF i < Len(old) THEN Nth(old, i) ELSE ""
        new_line == IF i < Len(new) THEN Nth(new, i) ELSE ""
        here == IF old_line # new_line
                THEN (IF old_line # "" THEN <<"-" \o old_line>> ELSE <<>>)
                     \o (IF new_line # "" THEN <<"+" \o new_line>> ELSE <<>>)
                ELSE IF old_line # "" THEN <<" " \o old_line>> ELSE <<>>
    IN IF i >= max_len THEN <<>> ELSE here \o DiffFrom(old, new, i + 1)

_generate_unified_diff(old_content, new_content_) ==
    LET old == split(old_content)
        new == split(new_content_)
        max_len == IF Len(old) > Len(new) THEN Len(old) ELSE Len(new)
        has_changes == \E i \in 0 .. (max_len - 1) :
            (IF i < Len(old) THEN Nth(old, i) ELSE "")
                # (IF i < Len(new) THEN Nth(new, i) ELSE "")
    IN IF has_changes THEN join(<<"@@ -1 +1 @@">> \o DiffFrom(old, new, 0)) ELSE ""

\* the rest of the loop of _compute_replacements after one iteration
RECURSIVE ComputeFrom(_, _, _, _, _)
AfterStep(lines, chunks, k, reps, st) ==
    IF st.ok
    THEN ComputeFrom(lines, chunks, k + 1, st.line_index, reps \o st.added)
    ELSE [ok |-> FALSE, error |-> st.error, replacements |-> <<>>]

\* _compute_replacements from chunk k on: the loop, then the sort
ComputeFrom(lines, chunks, k, idx, reps) ==
    IF k > Len(chunks)
    THEN [ok |-> TRUE, error |-> None, replacements |-> SortByStart(reps)]
    ELSE AfterStep(lines, chunks, k, reps, ComputeStep(lines, chunks[k], idx))

_compute_replacements(lines, chunks) == ComputeFrom(lines, chunks, 1, 0, <<>>)

DeriveFailed(error) ==
    [ok |-> FALSE, error |-> error, content |-> None, unified_diff |-> None]

\* the last statements of derive_new_contents_from_chunks
DeriveResult(original_content_, content) ==
    [ok |-> TRUE, error |-> None, content |-> content,
     unified_diff |-> _generate_unified_diff(original_content_, content)]

\* derive_new_contents_from_chunks once the replacements are computed
DeriveApply(original_content_, lines, cr) ==
    IF cr.ok
    THEN DeriveResult(original_content_,
                      join(EnsureTrailing(_apply_replacements(lines, cr.replacements))))
    ELSE DeriveFailed(cr.error)

\* a slip that reads a missing file as an empty one
derive_missing_as_empty(files, file_path, chunks) ==
    IF file_path \notin DOMAIN files
    THEN DeriveApply("", SplitLines(""), _compute_replacements(SplitLines(""), chunks))
    ELSE DeriveApply(files[file_path], SplitLines(files[file_path]),
                     _compute_replacements(SplitLines(files[file_path]), chunks))

\* derive_new_contents_from_chunks on the file system files: ok is FALSE where
\* the source raises ValueError (the file cannot be read, or a chunk is not found)
derive_new_contents_from_chunks(files, file_path, chunks) ==
    IF file_path \notin DOMAIN files
    THEN DeriveFailed("read")
    ELSE DeriveApply(files[file_path], SplitLines(files[file_path]),
                     _compute_replacements(SplitLines(files[file_path]), chunks))

----------------------------------------------------------------------------
(* FilesystemApplier: apply_hunks_to_files. The file system is a function  *)
(* from the paths of the existing files to their text. A hunk is           *)
(* [type, path, move_path, contents, chunks].                              *)

\* Path(p).write_text(text)
WriteText(files, p, text) ==
    [x \in (DOMAIN files) \cup {p} |-> IF x = p THEN text ELSE files[x]]

\* Path(p).unlink(missing_ok=True)
Unlink(files, p) == [x \in (DOMAIN files) \ {p} |-> files[x]]

\* the outcome of one iteration of `for hunk in hunks`: the files afterwards and
\* the paths appended to the three lists; ok is FALSE where the source raises
HunkDone(files, added_, modified_, deleted_) ==
    [ok |-> TRUE, error |-> None, files |-> files,
     added |-> added_, modified |-> modified_, deleted |-> deleted_]

HunkFailed(files, error) ==
    [ok |-> FALSE, error |-> error, files |-> files,
     added |-> <<>>, modified |-> <<>>, deleted |-> <<>>]

\* a slip that creates the move target before the chunks are located
UpdateEffect_target_first(files, h, file_update) ==
    IF ~file_update.ok
    THEN HunkFailed(IF Truthy(h.move_path) THEN WriteText(files, h.move_path, "")
                    ELSE files, file_update.error)
    ELSE IF Truthy(h.move_path)
    THEN HunkDone(Unlink(WriteText(files, h.move_path, file_update.content), h.path),
                  <<>>, <<h.move_path>>, <<>>)
    ELSE HunkDone(WriteText(files, h.path, file_update.content),
                  <<>>, <<h.path>>, <<>>)

\* the HunkUpdate branch, given what derive_new_contents_from_chunks returned
UpdateEffect(files, h, file_update) ==
    IF ~file_update.ok
    THEN HunkFailed(files, file_update.error)
    ELSE IF Truthy(h.move_path)
    THEN HunkDone(Unlink(WriteText(files, h.move_path, file_update.content), h.path),
                  <<>>, <<h.move_path>>, <<>>)
    ELSE HunkDone(WriteText(files, h.path, file_update.content),
                  <<>>, <<h.path>>, <<>>)

\* what the caller holds: nothing while the call runs, the AffectedPaths it
\* returns, or the ValueError it raises, whose message names file_path where
\* the source formats it in
NoResult ==
    [kind |-> "none", file_path |-> None,
     added |-> <<>>, modified |-> <<>>, deleted |-> <<>>]

ReturnedPaths(added_, modified_, deleted_) ==
    [kind |-> "AffectedPaths", file_path |-> None,
     added |-> added_, modified |-> modified_, deleted |-> deleted_]

RaisedValueError(file_path) ==
    [kind |-> "ValueError", file_path |-> file_path,
     added |-> <<>>, modified |-> <<>>, deleted |-> <<>>]

\* a slip that unlinks without missing_ok
HunkEffect_delete_requires_file(files, h) ==
    IF h.type = "add"
    THEN HunkDone(WriteText(files, h.path, h.contents), <<h.path>>, <<>>, <<>>)
    ELSE IF h.type = "delete"
    THEN IF h.path \in DOMAIN files
         THEN HunkDone(Unlink(files, h.path), <<>>, <<>>, <<h.path>>)
         ELSE HunkFailed(files, "unlink")
    ELSE UpdateEffect(files, h,
                      derive_new_contents_from_chunks(files, h.path, h.chunks))

\* the body of `for hunk in hunks`
HunkEffect(files, h) ==
    IF h.type = "add"
    THEN HunkDone(WriteText(files, h.path, h.contents), <<h.path>>, <<>>, <<>>)
    ELSE IF h.type = "delete"
    THEN HunkDone(Unlink(files, h.path), <<>>, <<>>, <<h.path>>)
    ELSE UpdateEffect(files, h,
                      derive_new_contents_from_chunks(files, h.path, h.chunks))

----------------------------------------------------------------------------
(* PatchParser: _strip_heredoc, _parse_patch_header, the two body parsers  *)
(* and the steps of parse_patch.                                           *)

\* \w of the pattern of _strip_heredoc (none of the stand-in characters)
WordChars ==
    {"a", "b", "c", "d", "e", "f", "g", "h", "i", "j", "k", "l", "m", "n", "o", "p",
     "q", "r", "s", "t", "u", "v", "w", "x", "y", "z",
     "A", "B", "C", "D", "E", "F", "G", "H", "I", "J", "K", "L", "M", "N", "O", "P",
     "Q", "R", "S", "T", "U", "V", "W", "X", "Y", "Z",
     "0", "1", "2", "3", "4", "5", "6", "7", "8", "9", "_"}

QuoteChars == {"'", "\""}

\* the 0-based index of the first character at or after k that is not in S
RECURSIVE SkipRun(_, _, _)
SkipRun(s, k, S) ==
    IF k < Len(s) /\ CharAt(s, k) \in S THEN SkipRun(s, k + 1, S) ELSE k

\* where the opening `(?:cat\s+)?<<` ends, or -1: cat needs whitespace after it
HeredocOpen(s) ==
    IF StartsWith(s, "<<") THEN 2
    ELSE IF StartsWith(s, "cat")
            /\ SkipRun(s, 3, Whitespace) > 3
            /\ StartsWith(Slice(s, SkipRun(s, 3, Whitespace), Len(s)), "<<")
    THEN SkipRun(s, 3, Whitespace) + 2
    ELSE -1

\* group 2 of the match, given the tag's span [t0, t1) and the whitespace run
\* [w0, w1) after the closing quotes: `\s*\n` ends at the last line feed p of the
\* run that leaves a place f > p where `\n\1\s*$` matches, and the lazy body
\* stops at the first such f
HeredocBody(s, t0, t1, w0, w1) ==
    LET tag == Slice(s, t0, t1)
        P == {k \in w0 .. (w1 - 1) : CharAt(s, k) = "\n"}
        F == {k \in 0 .. (Len(s) - 1) :
                /\ CharAt(s, k) = "\n"
                /\ StartsWith(Slice(s, k + 1, Len(s)), tag)
                /\ SkipRun(s, k + 1 + Len(tag), Whitespace) = Len(s)}
        ok == {k \in P : \E f \in F : f > k}
    IN IF t1 = t0 \/ ok = {} THEN [matched |-> FALSE, body |-> ""]
       ELSE [matched |-> TRUE,
             body |-> Slice(s, -SetMin({-k : k \in ok}) + 1,
                            SetMin({f \in F : f > -SetMin({-k : k \in ok})}))]

HeredocAfterTag(s, t0, t1) ==
    HeredocBody(s, t0, t1, SkipRun(s, t1, QuoteChars),
                SkipRun(s, SkipRun(s, t1, QuoteChars), Whitespace))

HeredocAfterOpen(s, t0) == HeredocAfterTag(s, t0, SkipRun(s, t0, WordChars))

\* re.match(pattern, input) with the pattern that line 82 spells,
\* ^(?:cat\s+)?<<['"]*(\w+)['"]*\s*\n([\s\S]*?)\n\1\s*$, the double quote
\* being a member of both character classes
HeredocMatch(s) ==
    IF HeredocOpen(s) = -1 THEN [matched |-> FALSE, body |-> ""]
    ELSE HeredocAfterOpen(s, SkipRun(s, HeredocOpen(s), QuoteChars))

_strip_heredoc(input) ==
    IF HeredocMatch(input).matched THEN HeredocMatch(input).body ELSE input

begin_marker == "*** Begin Patch"
end_marker == "*** End Patch"

\* a slip that compares the line as it stands
IsMarker_exact(line, marker) == line = marker

\* line.strip() == marker
IsMarker(line, marker) == strip(line) = marker

\* next((idx for idx, line in enumerate(lines) if line.strip() == marker), -1)
FirstMarker(lines, marker) ==
    LET S == {idx \in 0 .. (Len(lines) - 1) : IsMarker(Nth(lines, idx), marker)}
    IN IF S = {} THEN -1 ELSE SetMin(S)

\* line.split(":", 1)[1] for a line that holds a colon
RECURSIVE AfterColonFrom(_, _)
AfterColonFrom(line, k) ==
    IF k >= Len(line) THEN ""
    ELSE IF CharAt(line, k) = ":" THEN Slice(line, k + 1, Len(line))
    ELSE AfterColonFrom(line, k + 1)

AfterColon(line) == AfterColonFrom(line, 0)

NoHeader == [found |-> FALSE, file_path |-> None, move_path |-> None, next_idx |-> 0]

\* _parse_patch_header: found is FALSE where the source returns None
_parse_patch_header(lines, start_idx) ==
    IF start_idx >= Len(lines) THEN NoHeader
    ELSE IF StartsWith(Nth(lines, start_idx), "*** Add File:")
            \/ StartsWith(Nth(lines, start_idx), "*** Delete File:")
    THEN [found |-> TRUE, file_path |-> strip(AfterColon(Nth(lines, start_idx))),
          move_path |-> None, next_idx |-> start_idx + 1]
    ELSE IF StartsWith(Nth(lines, start_idx), "*** Update File:")
    THEN IF start_idx + 1 < Len(lines)
            /\ StartsWith(Nth(lines, start_idx + 1), "*** Move to:")
         THEN [found |-> TRUE, file_path |-> strip(AfterColon(Nth(lines, start_idx))),
               move_path |-> strip(AfterColon(Nth(lines, start_idx + 1))),
               next_idx |-> start_idx + 2]
         ELSE [found |-> TRUE, file_path |-> strip(AfterColon(Nth(lines, start_idx))),
               move_path |-> None, next_idx |-> start_idx + 1]
    ELSE NoHeader

\* the inner while loop of _parse_update_file_chunks: the lines of one chunk
RECURSIVE ChunkBody(_, _, _, _)
ChunkBody(lines, k, old, new) ==
    IF k >= Len(lines) \/ StartsWith(Nth(lines, k), "@@")
       \/ StartsWith(Nth(lines, k), "***")
    THEN [old_lines |-> old, new_lines |-> new, is_end_of_file |-> FALSE, next |-> k]
    ELSE IF Nth(lines, k) = "*** End of File"
    THEN [old_lines |-> old, new_lines |-> new, is_end_of_file |-> TRUE, next |-> k + 1]
    ELSE IF StartsWith(Nth(lines, k), " ")
    THEN ChunkBody(lines, k + 1, Append(old, Slice(Nth(lines, k), 1, Len(Nth(lines, k)))),
                   Append(new, Slice(Nth(lines, k), 1, Len(Nth(lines, k)))))
    ELSE IF StartsWith(Nth(lines, k), "-")
    THEN ChunkBody(lines, k + 1, Append(old, Slice(Nth(lines, k), 1, Len(Nth(lines, k)))),
                   new)
    ELSE IF StartsWith(Nth(lines, k), "+")
    THEN ChunkBody(lines, k + 1, old,
                   Append(new, Slice(Nth(lines, k), 1, Len(Nth(lines, k)))))
    ELSE ChunkBody(lines, k + 1, old, new)

\* a slip that keeps an empty context as the empty string
MakeChunk_keeps_empty_context(context_src, body) ==
    [old_lines |-> body.old_lines, new_lines |-> body.new_lines,
     change_context |-> strip(Slice(context_src, 2, Len(context_src))),
     is_end_of_file |-> body.is_end_of_file]

\* chunks.append(UpdateFileChunk(...)) for the chunk whose `@@` line is context_src
MakeChunk(context_src, body) ==
    [old_lines |-> body.old_lines, new_lines |-> body.new_lines,
     change_context |-> IF strip(Slice(context_src, 2, Len(context_src))) = ""
                        THEN None
                        ELSE strip(Slice(context_src, 2, Len(context_src))),
     is_end_of_file |-> body.is_end_of_file]

\* the outer while loop of _parse_update_file_chunks
RECURSIVE ChunksFrom(_, _, _)
ChunksAfterBody(lines, k, chunks, body) ==
    ChunksFrom(lines, body.next, Append(chunks, MakeChunk(Nth(lines, k), body)))

ChunksFrom(lines, k, chunks) ==
    IF k >= Len(lines) \/ StartsWith(Nth(lines, k), "***")
    THEN [chunks |-> chunks, next |-> k]
    ELSE IF StartsWith(Nth(lines, k), "@@")
    THEN ChunksAfterBody(lines, k, chunks, ChunkBody(lines, k + 1, <<>>, <<>>))
    ELSE ChunksFrom(lines, k + 1, chunks)

_parse_update_file_chunks(lines, start_idx) == ChunksFrom(lines, start_idx, <<>>)

\* the while loop of _parse_add_file_content
RECURSIVE AddContentFrom(_, _, _)
AddContentFrom(lines, k, content_lines) ==
    IF k >= Len(lines) \/ StartsWith(Nth(lines, k), "***")
    THEN [content |-> join(content_lines), next |-> k]
    ELSE IF StartsWith(Nth(lines, k), "+")
    THEN AddContentFrom(lines, k + 1,
                        Append(content_lines, Slice(Nth(lines, k), 1, Len(Nth(lines, k)))))
    ELSE AddContentFrom(lines, k + 1, content_lines)

_parse_add_file_content(lines, start_idx) == AddContentFrom(lines, start_idx, <<>>)

\* a slip that ends the contents with a line feed
HunkAdd_with_newline(path, contents) ==
    [type |-> "add", path |-> path, move_path |-> None, contents |-> contents \o "\n",
     chunks |-> <<>>]

HunkAdd(path, contents) ==
    [type |-> "add", path |-> path, move_path |-> None, contents |-> contents,
     chunks |-> <<>>]

HunkDelete(path) ==
    [type |-> "delete", path |-> path, move_path |-> None, contents |-> "",
     chunks |-> <<>>]

HunkUpdate(path, move_path, chunks) ==
    [type |-> "update", path |-> path, move_path |-> move_path, contents |-> "",
     chunks |-> chunks]

\* a slip that resumes one line after the end of the added content
AddRecord_skips_line(hs, header, parsed) ==
    [hunks |-> Append(hs, HunkAdd(header.file_path, parsed.content)),
     i |-> parsed.next + 1]

\* the three branches of the loop body of parse_patch once a header is found
AddRecord(hs, header, parsed) ==
    [hunks |-> Append(hs, HunkAdd(header.file_path, parsed.content)), i |-> parsed.next]

UpdateRecord(hs, header, parsed) ==
    [hunks |-> Append(hs, HunkUpdate(header.file_path, header.move_path, parsed.chunks)),
     i |-> parsed.next]

RecordFor(lines, k, hs, header) ==
    IF ~header.found THEN [hunks |-> hs, i |-> k + 1]
    ELSE IF StartsWith(Nth(lines, k), "*** Add File:")
    THEN AddRecord(hs, header, _parse_add_file_content(lines, header.next_idx))
    ELSE IF StartsWith(Nth(lines, k), "*** Delete File:")
    THEN [hunks |-> Append(hs, HunkDelete(header.file_path)), i |-> header.next_idx]
    ELSE IF StartsWith(Nth(lines, k), "*** Update File:")
    THEN UpdateRecord(hs, header, _parse_update_file_chunks(lines, header.next_idx))
    ELSE [hunks |-> hs, i |-> k + 1]

\* one iteration of `while i < end_idx` of parse_patch
ParseRecordStep(lines, k, hs) == RecordFor(lines, k, hs, _parse_patch_header(lines, k))

----------------------------------------------------------------------------
(* Specification SpecSeek: one call of _seek_sequence on bounded inputs.   *)

SeekLineSet == {"a", "a ", " a", "'", "^", ""}

SeqsUpTo(S, n) == UNION {[1 .. k -> S] : k \in 0 .. n}

IdleSeek ==
    /\ sk_lines = <<>>
    /\ sk_pattern = <<>>
    /\ sk_start_index = 0
    /\ sk_eof = FALSE
    /\ sk_result = -1
    /\ sk_pc = "idle"

IdleDerive ==
    /\ original_content = ""
    /\ original_lines = <<>>
    /\ chunk = NoChunk
    /\ n_chunks = 0
    /\ line_index = 0
    /\ replacements = <<>>
    /\ new_lines = <<>>
    /\ new_content = None
    /\ unified_diff = None
    /\ dn_pc = "idle"

IdleApply ==
    /\ fs = <<>>
    /\ hunk = [type |-> None, path |-> None, move_path |-> None, contents |-> "",
               chunks |-> <<>>]
    /\ n_hunks = 0
    /\ added = <<>>
    /\ modified = <<>>
    /\ deleted = <<>>
    /\ ap_error = None
    /\ ap_pc = "idle"
    /\ ap_result = NoResult

IdleParse ==
    /\ patch_text = ""
    /\ pp_lines = <<>>
    /\ begin_idx = -1
    /\ end_idx = -1
    /\ pp_i = 0
    /\ hunks = <<>>
    /\ pp_pc = "idle"

\* what the caller of execute holds while the call runs
NoReturn ==
    [kind |-> "none", success |-> FALSE, files_added |-> <<>>,
     files_modified |-> <<>>, files_deleted |-> <<>>]

IdleTool ==
    /\ tool_fs = <<>>
    /\ tool_hunks = <<>>
    /\ tool_n = 0
    /\ files_added = <<>>
    /\ files_modified = <<>>
    /\ files_deleted = <<>>
    /\ tool_pc = "idle"
    /\ tool_return = NoReturn

\* the event types of the model, "*" being the key of subscribe_all
EventTypeSet == {"t", "u"}

KeySet == EventTypeSet \cup {"*"}

NoPayload == [type |-> None, properties |-> None]

\* EventBus.__init__, no publish running
IdleBus ==
    /\ _subscriptions = [k \in KeySet |-> <<>>]
    /\ event_type = None
    /\ properties = None
    /\ payload = NoPayload
    /\ bus_i = 0
    /\ bus_pc = "idle"
    /\ subscribed_at_call = [k \in KeySet |-> <<>>]
    /\ invoked = <<>>
    /\ n_publish = 0

\* the module as imported, with no call made
IdleId ==
    /\ clock = <<>>
    /\ _last_timestamp = <<>>
    /\ _counter = 0
    /\ issued = <<>>
    /\ n_ticks = 0

InitSeek ==
    /\ IdleId
    /\ IdleBus
    /\ IdleTool
    /\ IdleDerive
    /\ IdleApply
    /\ IdleParse
    /\ sk_lines \in SeqsUpTo(SeekLineSet, MaxSeekLines)
    /\ sk_pattern \in SeqsUpTo(SeekLineSet, MaxSeekPat)
    /\ sk_start_index \in 0 .. MaxSeekLines
    /\ sk_start_index <= Len(sk_lines)
    /\ sk_eof \in BOOLEAN
    /\ sk_result = -1
    /\ sk_pc = "call"

Seek ==
    /\ sk_pc = "call"
    /\ sk_result' = _seek_sequence(sk_lines, sk_pattern, sk_start_index, sk_eof)
    /\ sk_pc' = "returned"
    /\ UNCHANGED <<sk_lines, sk_pattern, sk_start_index, sk_eof>>
    /\ UNCHANGED <<deriveVars, applyVars, parseVars, toolVars, busVars, idVars>>

NextSeek == Seek

SpecSeek == InitSeek /\ [][NextSeek]_vars

----------------------------------------------------------------------------
(* Specification SpecDerive: one call of derive_new_contents_from_chunks   *)
(* on a readable file. The chunk list is consumed one chunk per step.      *)

FileLineSet == {"a", "a ", ""}

OldLinesSet == {<<>>, <<"a">>, <<"a", "">>, <<"b">>}

\* the new lines of a chunk: a deletion, a replacement that grows the file and
\* ends in an empty line, or the old lines again
NewLinesFor(o) == {<<>>, <<"x", "">>, IF o = <<>> THEN <<"y">> ELSE o}

\* (change_context, is_end_of_file)
AnchorSet == {<<None, FALSE>>, <<"a", FALSE>>, <<None, TRUE>>}

ChunkSet ==
    UNION {{[old_lines |-> o, new_lines |-> n, change_context |-> a[1],
             is_end_of_file |-> a[2]] : n \in NewLinesFor(o), a \in AnchorSet} :
           o \in OldLinesSet}

InitDerive ==
    /\ IdleId
    /\ IdleBus
    /\ IdleTool
    /\ IdleSeek
    /\ IdleApply
    /\ IdleParse
    /\ \E parts \in SeqsUpTo(FileLineSet, MaxParts) :
           parts # <<>> /\ original_content = join(parts)
    /\ original_lines = <<>>
    /\ chunk = NoChunk
    /\ n_chunks = 0
    /\ line_index = 0
    /\ replacements = <<>>
    /\ new_lines = <<>>
    /\ new_content = None
    /\ unified_diff = None
    /\ dn_pc = "read"

\* original_lines = original_content.split("\n"), last empty element popped
ReadAndSplit ==
    /\ dn_pc = "read"
    /\ original_lines' = SplitLines(original_content)
    /\ dn_pc' = "loop"
    /\ UNCHANGED <<original_content, chunk, n_chunks, line_index, replacements,
                   new_lines, new_content, unified_diff>>
    /\ UNCHANGED <<seekVars, applyVars, parseVars, toolVars, busVars, idVars>>

\* one iteration of the loop over the chunks
ProcessChunk ==
    /\ dn_pc = "loop"
    /\ n_chunks < MaxChunks
    /\ \E c \in ChunkSet :
         \E st \in {ComputeStep(original_lines, c, line_index)} :
            /\ chunk' = c
            /\ n_chunks' = n_chunks + 1
            /\ line_index' = st.line_index
            /\ replacements' = replacements \o st.added
            /\ dn_pc' = IF st.ok THEN "loop" ELSE "failed"
    /\ UNCHANGED <<original_content, original_lines, new_lines, new_content,
                   unified_diff>>
    /\ UNCHANGED <<seekVars, applyVars, parseVars, toolVars, busVars, idVars>>

\* the list is exhausted: sort and return the replacements
SortReplacements ==
    /\ dn_pc = "loop"
    /\ replacements' = SortByStart(replacements)
    /\ dn_pc' = "apply"
    /\ UNCHANGED <<original_content, original_lines, chunk, n_chunks, line_index,
                   new_lines, new_content, unified_diff>>
    /\ UNCHANGED <<seekVars, applyVars, parseVars, toolVars, busVars, idVars>>

ApplyReplacements ==
    /\ dn_pc = "apply"
    /\ new_lines' = _apply_replacements(original_lines, replacements)
    /\ dn_pc' = "join"
    /\ UNCHANGED <<original_content, original_lines, chunk, n_chunks, line_index,
                   replacements, new_content, unified_diff>>
    /\ UNCHANGED <<seekVars, applyVars, parseVars, toolVars, busVars, idVars>>

\* append the trailing empty line, join, diff and return
JoinAndDiff ==
    /\ dn_pc = "join"
    /\ new_content' = join(EnsureTrailing(new_lines))
    /\ unified_diff' = _generate_unified_diff(original_content,
                                              join(EnsureTrailing(new_lines)))
    /\ dn_pc' = "done"
    /\ UNCHANGED <<original_content, original_lines, chunk, n_chunks, line_index,
                   replacements, new_lines>>
    /\ UNCHANGED <<seekVars, applyVars, parseVars, toolVars, busVars, idVars>>

NextDerive ==
    \/ ReadAndSplit
    \/ ProcessChunk
    \/ SortReplacements
    \/ ApplyReplacements
    \/ JoinAndDiff

SpecDerive == InitDerive /\ [][NextDerive]_vars

----------------------------------------------------------------------------
(* Specification SpecApply: one call of apply_hunks_to_files. The hunk     *)
(* list is consumed one hunk per step; an empty list raises at once.       *)

PathSet == {"p", "q"}

\* the chunk lists of the Update hunks: a replacement, a chunk that is found
\* in no file of the model, an insertion at the end, a context and a deletion
ChunkListSet ==
    {<<[old_lines |-> <<"a">>, new_lines |-> <<"x">>, change_context |-> None,
        is_end_of_file |-> FALSE]>>,
     <<[old_lines |-> <<"b">>, new_lines |-> <<"x">>, change_context |-> None,
        is_end_of_file |-> FALSE]>>,
     <<[old_lines |-> <<>>, new_lines |-> <<"a">>, change_context |-> "x",
        is_end_of_file |-> FALSE]>>}

HunkSet ==
    {[type |-> "add", path |-> p, move_path |-> None, contents |-> c, chunks |-> <<>>] :
        p \in PathSet, c \in {"a", "x\n"}}
    \cup
    {[type |-> "delete", path |-> p, move_path |-> None, contents |-> "",
      chunks |-> <<>>] : p \in PathSet}
    \cup
    {[type |-> "update", path |-> p, move_path |-> m, contents |-> "", chunks |-> cs] :
        p \in PathSet, m \in {None} \cup PathSet, cs \in ChunkListSet}

\* the file systems a call starts from: each path is missing or holds a text
InitialFiles ==
    UNION {[D -> {"a\n", "a\na\n"}] : D \in SUBSET PathSet}

InitApply ==
    /\ IdleId
    /\ IdleBus
    /\ IdleTool
    /\ IdleSeek
    /\ IdleDerive
    /\ IdleParse
    /\ fs \in InitialFiles
    /\ hunk = [type |-> None, path |-> None, move_path |-> None, contents |-> "",
               chunks |-> <<>>]
    /\ n_hunks = 0
    /\ added = <<>>
    /\ modified = <<>>
    /\ deleted = <<>>
    /\ ap_error = None
    /\ ap_pc = "start"
    /\ ap_result = NoResult

\* if not hunks: raise ValueError("No files were modified.")
RaiseNoHunks ==
    /\ ap_pc = "start"
    /\ ap_error' = "no hunks"
    /\ ap_pc' = "raised"
    /\ ap_result' = RaisedValueError(None)
    /\ UNCHANGED <<fs, hunk, n_hunks, added, modified, deleted>>
    /\ UNCHANGED <<seekVars, deriveVars, parseVars, toolVars, busVars, idVars>>

\* one iteration of `for hunk in hunks`
ApplyHunk ==
    /\ ap_pc \in {"start", "run"}
    /\ n_hunks < MaxHunks
    /\ \E h \in HunkSet :
         \E e \in {HunkEffect(fs, h)} :
            /\ hunk' = h
            /\ n_hunks' = n_hunks + 1
            /\ fs' = e.files
            /\ added' = added \o e.added
            /\ modified' = modified \o e.modified
            /\ deleted' = deleted \o e.deleted
            /\ ap_error' = e.error
            /\ ap_pc' = IF e.ok THEN "run" ELSE "raised"
            /\ ap_result' = IF e.ok THEN ap_result ELSE RaisedValueError(h.path)
    /\ UNCHANGED <<seekVars, deriveVars, parseVars, toolVars, busVars, idVars>>

\* return AffectedPaths(added=added, modified=modified, deleted=deleted)
ReturnAffected ==
    /\ ap_pc = "run"
    /\ ap_pc' = "returned"
    /\ ap_result' = ReturnedPaths(added, modified, deleted)
    /\ UNCHANGED <<fs, hunk, n_hunks, added, modified, deleted, ap_error>>
    /\ UNCHANGED <<seekVars, deriveVars, parseVars, toolVars, busVars, idVars>>

NextApply ==
    \/ RaiseNoHunks
    \/ ApplyHunk
    \/ ReturnAffected

SpecApply == InitApply /\ [][NextApply]_vars

----------------------------------------------------------------------------
(* Specification SpecParse: one call of parse_patch on a bounded document, *)
(* bare or inside a heredoc wrapper.                                       *)

DocLineSet ==
    {"*** Begin Patch", "*** End Patch", " *** End Patch",
     "*** Add File: p", "*** Delete File: p", "*** Update File: p",
     "*** Move to: q", "@@", "+x", "-a"}

BodyLineSet == DocLineSet \ {begin_marker, end_marker}

\* documents with the lines in any arrangement, and documents with a body
\* between a Begin and an End line
DocSet ==
    (SeqsUpTo(DocLineSet, MaxDocLines) \ {<<>>})
    \cup {<<begin_marker>> \o body \o <<end_marker>> :
             body \in SeqsUpTo(BodyLineSet, MaxBodyLines)}

Wrapped(text) == "cat <<'eof'\n" \o text \o "\neof"

InitParse ==
    /\ IdleId
    /\ IdleBus
    /\ IdleTool
    /\ IdleSeek
    /\ IdleDerive
    /\ IdleApply
    /\ \E doc \in DocSet : patch_text \in {join(doc), Wrapped(join(doc))}
    /\ pp_lines = <<>>
    /\ begin_idx = -1
    /\ end_idx = -1
    /\ pp_i = 0
    /\ hunks = <<>>
    /\ pp_pc = "call"

\* from the call to the check of the markers
ParseMarkers ==
    /\ pp_pc = "call"
    /\ \E ls \in {split(_strip_heredoc(strip(patch_text)))} :
         /\ pp_lines' = ls
         /\ begin_idx' = FirstMarker(ls, begin_marker)
         /\ end_idx' = FirstMarker(ls, end_marker)
         /\ IF FirstMarker(ls, begin_marker) = -1 \/ FirstMarker(ls, end_marker) = -1
               \/ FirstMarker(ls, begin_marker) >= FirstMarker(ls, end_marker)
            THEN pp_pc' = "raised" /\ pp_i' = 0
            ELSE pp_pc' = "loop" /\ pp_i' = FirstMarker(ls, begin_marker) + 1
    /\ UNCHANGED <<patch_text, hunks>>
    /\ UNCHANGED <<seekVars, deriveVars, applyVars, toolVars, busVars, idVars>>

\* one iteration of `while i < end_idx`
ParseRecord ==
    /\ pp_pc = "loop"
    /\ pp_i < end_idx
    /\ \E st \in {ParseRecordStep(pp_lines, pp_i, hunks)} :
         /\ hunks' = st.hunks
         /\ pp_i' = st.i
    /\ UNCHANGED <<patch_text, pp_lines, begin_idx, end_idx, pp_pc>>
    /\ UNCHANGED <<seekVars, deriveVars, applyVars, toolVars, busVars, idVars>>

\* return {"hunks": hunks}
ParseReturn ==
    /\ pp_pc = "loop"
    /\ pp_i >= end_idx
    /\ pp_pc' = "returned"
    /\ UNCHANGED <<patch_text, pp_lines, begin_idx, end_idx, pp_i, hunks>>
    /\ UNCHANGED <<seekVars, deriveVars, applyVars, toolVars, busVars, idVars>>

NextParse ==
    \/ ParseMarkers
    \/ ParseRecord
    \/ ParseReturn

SpecParse == InitParse /\ [][NextParse]_vars

----------------------------------------------------------------------------
(* Specification SpecRecords: one call of parse_patch on a document that   *)
(* holds one record, its header with or without a path, and a bounded body *)
(* of chunk lines.                                                         *)

RecordHeaderSet ==
    {"*** Update File: p", "*** Update File:", "*** Add File:", "*** Delete File:  "}

RecordLineSet == {"@@", "@@ c ", " a", "-a", "+x", "*** End of File", "j"}

RecordDocSet ==
    {<<begin_marker, header>> \o body \o <<end_marker>> :
        header \in RecordHeaderSet, body \in SeqsUpTo(RecordLineSet, MaxRecordLines)}

InitRecords ==
    /\ IdleId
    /\ IdleBus
    /\ IdleTool
    /\ IdleSeek
    /\ IdleDerive
    /\ IdleApply
    /\ \E doc \in RecordDocSet : patch_text = join(doc)
    /\ pp_lines = <<>>
    /\ begin_idx = -1
    /\ end_idx = -1
    /\ pp_i = 0
    /\ hunks = <<>>
    /\ pp_pc = "call"

SpecRecords == InitRecords /\ [][NextParse]_vars

----------------------------------------------------------------------------
(* Specification SpecPatch: one call of apply_patch, which parses the      *)
(* document and hands the hunks to apply_hunks_to_files, on a bounded      *)
(* document and file system.                                               *)

PatchLineSet ==
    {"*** Add File: p", "*** Delete File: p", "*** Update File: p", "*** Move to: q",
     "@@", "+x", "-a", " *** End Patch"}

PatchDocSet ==
    {<<begin_marker>> \o body \o <<end_marker>> :
        body \in SeqsUpTo(PatchLineSet, MaxPatchLines)}

InitPatch ==
    /\ IdleId
    /\ IdleBus
    /\ IdleTool
    /\ IdleSeek
    /\ IdleDerive
    /\ \E doc \in PatchDocSet : patch_text = join(doc)
    /\ pp_lines = <<>>
    /\ begin_idx = -1
    /\ end_idx = -1
    /\ pp_i = 0
    /\ hunks = <<>>
    /\ pp_pc = "call"
    /\ fs \in InitialFiles
    /\ hunk = [type |-> None, path |-> None, move_path |-> None, contents |-> "",
               chunks |-> <<>>]
    /\ n_hunks = 0
    /\ added = <<>>
    /\ modified = <<>>
    /\ deleted = <<>>
    /\ ap_error = None
    /\ ap_pc = "start"
    /\ ap_result = NoResult

\* a slip that takes a patch without hunks as done
PatchRaiseNoHunks_returns_empty ==
    /\ pp_pc = "returned"
    /\ ap_pc = "start"
    /\ hunks = <<>>
    /\ ap_pc' = "returned"
    /\ ap_result' = ReturnedPaths(added, modified, deleted)
    /\ UNCHANGED <<fs, hunk, n_hunks, added, modified, deleted, ap_error>>
    /\ UNCHANGED <<seekVars, deriveVars, parseVars, toolVars, busVars, idVars>>

\* apply_hunks_to_files(parsed["hunks"]) with no hunk: raise ValueError
PatchRaiseNoHunks ==
    /\ pp_pc = "returned"
    /\ ap_pc = "start"
    /\ hunks = <<>>
    /\ ap_error' = "no hunks"
    /\ ap_pc' = "raised"
    /\ ap_result' = RaisedValueError(None)
    /\ UNCHANGED <<fs, hunk, n_hunks, added, modified, deleted>>
    /\ UNCHANGED <<seekVars, deriveVars, parseVars, toolVars, busVars, idVars>>

\* one iteration of `for hunk in hunks` over the parsed hunks
PatchApplyHunk ==
    /\ pp_pc = "returned"
    /\ ap_pc \in {"start", "run"}
    /\ n_hunks < Len(hunks)
    /\ \E h \in {hunks[n_hunks + 1]} :
         \E e \in {HunkEffect(fs, h)} :
            /\ hunk' = h
            /\ n_hunks' = n_hunks + 1
            /\ fs' = e.files
            /\ added' = added \o e.added
            /\ modified' = modified \o e.modified
            /\ deleted' = deleted \o e.deleted
            /\ ap_error' = e.error
            /\ ap_pc' = IF e.ok THEN "run" ELSE "raised"
            /\ ap_result' = IF e.ok THEN ap_result ELSE RaisedValueError(h.path)
    /\ UNCHANGED <<seekVars, deriveVars, parseVars, toolVars, busVars, idVars>>

\* the loop is over: return AffectedPaths(...)
PatchReturn ==
    /\ pp_pc = "returned"
    /\ ap_pc = "run"
    /\ n_hunks = Len(hunks)
    /\ ap_pc' = "returned"
    /\ ap_result' = ReturnedPaths(added, modified, deleted)
    /\ UNCHANGED <<fs, hunk, n_hunks, added, modified, deleted, ap_error>>
    /\ UNCHANGED <<seekVars, deriveVars, parseVars, toolVars, busVars, idVars>>

NextPatch ==
    \/ ParseMarkers
    \/ ParseRecord
    \/ ParseReturn
    \/ PatchRaiseNoHunks
    \/ PatchApplyHunk
    \/ PatchReturn

SpecPatch == InitPatch /\ [][NextPatch]_vars

----------------------------------------------------------------------------
(* The tool's copy of the engine, src/opencode/tool/apply_patch.py, and    *)
(* specification SpecAgree: apply_patch of the library and then            *)
(* ApplyPatchTool.execute on the same patch text, each on its own copy of  *)
(* the same files, project_dir being the library's working directory. A   *)
(* chunk dict is written as the library's chunk record, context as         *)
(* change_context and is_eof as is_end_of_file.                            *)

\* parse_patch_header: found is FALSE where the source returns None, which it
\* does for an empty file path too
parse_patch_header(lines, idx) ==
    IF StartsWith(Nth(lines, idx), "*** Add File:")
       \/ StartsWith(Nth(lines, idx), "*** Delete File:")
    THEN IF strip(AfterColon(Nth(lines, idx))) = "" THEN NoHeader
         ELSE [found |-> TRUE, file_path |-> strip(AfterColon(Nth(lines, idx))),
               move_path |-> None, next_idx |-> idx + 1]
    ELSE IF StartsWith(Nth(lines, idx), "*** Update File:")
    THEN IF strip(AfterColon(Nth(lines, idx))) = "" THEN NoHeader
         ELSE IF idx + 1 < Len(lines) /\ StartsWith(Nth(lines, idx + 1), "*** Move to:")
         THEN [found |-> TRUE, file_path |-> strip(AfterColon(Nth(lines, idx))),
               move_path |-> strip(AfterColon(Nth(lines, idx + 1))),
               next_idx |-> idx + 2]
         ELSE [found |-> TRUE, file_path |-> strip(AfterColon(Nth(lines, idx))),
               move_path |-> None, next_idx |-> idx + 1]
    ELSE NoHeader

\* parse_update_chunks and parse_add_file_content: the loops of the library's
\* _parse_update_file_chunks and _parse_add_file_content
parse_update_chunks(lines, idx) == ChunksFrom(lines, idx, <<>>)

parse_add_file_content(lines, idx) == AddContentFrom(lines, idx, <<>>)

\* re.match of ^(?:cat\s+)?<<['"]?(\w+)['"]?\s*\n([\s\S]*?)\n\1\s*$: at most
\* one quote on each side of the tag
OneQuote(s, k) == IF k < Len(s) /\ CharAt(s, k) \in QuoteChars THEN k + 1 ELSE k

ToolHeredocAfterTag(s, t0, t1) ==
    HeredocBody(s, t0, t1, OneQuote(s, t1), SkipRun(s, OneQuote(s, t1), Whitespace))

ToolHeredocAfterOpen(s, t0) == ToolHeredocAfterTag(s, t0, SkipRun(s, t0, WordChars))

heredoc_match(s) ==
    IF HeredocOpen(s) = -1 THEN [matched |-> FALSE, body |-> ""]
    ELSE ToolHeredocAfterOpen(s, OneQuote(s, HeredocOpen(s)))

\* lines = patch_text.split("\n"), of group 2 when the stripped text matches
ToolLines(text) ==
    IF heredoc_match(strip(text)).matched
    THEN split(heredoc_match(strip(text)).body)
    ELSE split(text)

\* the loop `while i < end_idx` of parse_patch
RECURSIVE ToolHunksFrom(_, _, _, _)
ToolHunksAfter(lines, end, st) == ToolHunksFrom(lines, st.i, end, st.hunks)

ToolHunksFrom(lines, k, end, hs) ==
    IF k >= end THEN hs
    ELSE ToolHunksAfter(lines, end, RecordFor(lines, k, hs, parse_patch_header(lines, k)))

ToolParseLines(lines, b, e) ==
    IF b = -1 \/ e = -1 \/ b >= e
    THEN [ok |-> FALSE, hunks |-> <<>>]
    ELSE [ok |-> TRUE, hunks |-> ToolHunksFrom(lines, b + 1, e, <<>>)]

\* parse_patch of the tool: ok is FALSE where it raises ValueError
parse_patch(text) ==
    ToolParseLines(ToolLines(text), FirstMarker(ToolLines(text), begin_marker),
                   FirstMarker(ToolLines(text), end_marker))

\* the loop over the chunks of apply_chunks_to_content, whose body is that of
\* the library's _compute_replacements and whose seek_sequence is the
\* library's _seek_sequence: the replacements in the order of the chunks
RECURSIVE ToolLocateFrom(_, _, _, _, _)
ToolLocateAfter(lines, chunks, k, reps, st) ==
    IF st.ok
    THEN ToolLocateFrom(lines, chunks, k + 1, st.line_index, reps \o st.added)
    ELSE [ok |-> FALSE, error |-> st.error, replacements |-> <<>>]

ToolLocateFrom(lines, chunks, k, line_idx, reps) ==
    IF k > Len(chunks)
    THEN [ok |-> TRUE, error |-> None, replacements |-> reps]
    ELSE ToolLocateAfter(lines, chunks, k, reps, ComputeStep(lines, chunks[k], line_idx))

\* sorted(replacements, key=lambda x: x[0], reverse=True): descending starts,
\* equal starts staying in the order of the list
InsertByStartReversed(sorted, r) ==
    LET k == Cardinality({i \in 1 .. Len(sorted) : sorted[i][1] >= r[1]})
    IN SubSeq(sorted, 1, k) \o <<r>> \o SubSeq(sorted, k + 1, Len(sorted))

RECURSIVE SortReversed(_)
SortReversed(reps) ==
    IF reps = <<>> THEN <<>>
    ELSE InsertByStartReversed(SortReversed(Front(reps)), Last(reps))

\* for start_idx, old_len, new_segment in sorted(...): the slice assignments
RECURSIVE ToolApplyFrom(_, _, _)
ToolApplyFrom(result, reps, k) ==
    IF k > Len(reps) THEN result
    ELSE ToolApplyFrom(SliceAssign(result, reps[k][1], reps[k][1] + reps[k][2],
                                   reps[k][3]),
                       reps, k + 1)

ToolNewContent(lines, located) ==
    IF located.ok
    THEN [ok |-> TRUE, error |-> None,
          content |-> join(EnsureTrailing(
                          ToolApplyFrom(lines, SortReversed(located.replacements), 1)))]
    ELSE [ok |-> FALSE, error |-> located.error, content |-> None]

\* apply_chunks_to_content on the files under project_dir: ok is FALSE where
\* it raises ValueError; content is the first element of the returned pair
apply_chunks_to_content(files, file_path, chunks) ==
    IF file_path \notin DOMAIN files
    THEN [ok |-> FALSE, error |-> "read", content |-> None]
    ELSE ToolNewContent(SplitLines(files[file_path]),
                        ToolLocateFrom(SplitLines(files[file_path]), chunks, 1, 0, <<>>))

\* the update branch of the loop of execute, given the new content
ToolUpdateEffect(files, h, updated) ==
    IF ~updated.ok
    THEN HunkFailed(files, updated.error)
    ELSE IF Truthy(h.move_path)
    THEN HunkDone(Unlink(WriteText(files, h.move_path, updated.content), h.path),
                  <<>>, <<h.move_path>>, <<>>)
    ELSE HunkDone(WriteText(files, h.path, updated.content), <<>>, <<h.path>>, <<>>)

\* the body of `for hunk in hunks` of execute: ok is FALSE where it raises
ToolHunkEffect(files, h) ==
    IF h.type = "add"
    THEN HunkDone(WriteText(files, h.path, h.contents), <<h.path>>, <<>>, <<>>)
    ELSE IF h.type = "delete"
    THEN IF h.path \in DOMAIN files
         THEN HunkDone(Unlink(files, h.path), <<>>, <<>>, <<h.path>>)
         ELSE HunkDone(files, <<>>, <<>>, <<>>)
    ELSE IF h.path \notin DOMAIN files
    THEN HunkFailed(files, "missing")
    ELSE ToolUpdateEffect(files, h, apply_chunks_to_content(files, h.path, h.chunks))

\* the dict that execute returns
ReturnedDict(success, added_, modified_, deleted_) ==
    [kind |-> "dict", success |-> success, files_added |-> added_,
     files_modified |-> modified_, files_deleted |-> deleted_]

\* apply_patch has returned or raised
LibraryDone == pp_pc = "raised" \/ ap_pc \in {"raised", "returned"}

InitAgree ==
    /\ IdleId
    /\ IdleBus
    /\ IdleSeek
    /\ IdleDerive
    /\ \E doc \in PatchDocSet \cup {<<>>} : patch_text = join(doc)
    /\ pp_lines = <<>>
    /\ begin_idx = -1
    /\ end_idx = -1
    /\ pp_i = 0
    /\ hunks = <<>>
    /\ pp_pc = "call"
    /\ fs \in InitialFiles
    /\ hunk = [type |-> None, path |-> None, move_path |-> None, contents |-> "",
               chunks |-> <<>>]
    /\ n_hunks = 0
    /\ added = <<>>
    /\ modified = <<>>
    /\ deleted = <<>>
    /\ ap_error = None
    /\ ap_pc = "start"
    /\ ap_result = NoResult
    /\ tool_fs = fs
    /\ tool_hunks = <<>>
    /\ tool_n = 0
    /\ files_added = <<>>
    /\ files_modified = <<>>
    /\ files_deleted = <<>>
    /\ tool_pc = "call"
    /\ tool_return = NoReturn

\* if not patch_text: return the failure dict
ExecuteNoText ==
    /\ LibraryDone
    /\ tool_pc = "call"
    /\ patch_text = ""
    /\ tool_pc' = "returned"
    /\ tool_return' = ReturnedDict(FALSE, <<>>, <<>>, <<>>)
    /\ UNCHANGED <<tool_fs, tool_hunks, tool_n, files_added, files_modified,
                   files_deleted>>
    /\ UNCHANGED <<seekVars, deriveVars, applyVars, parseVars, busVars, idVars>>

\* hunks = parse_patch(patch_text) and `if not hunks`; an exception is caught
\* and the failure dict returned
ExecuteParse ==
    /\ LibraryDone
    /\ tool_pc = "call"
    /\ patch_text # ""
    /\ \E parsed \in {parse_patch(patch_text)} :
         IF parsed.ok /\ parsed.hunks # <<>>
         THEN /\ tool_hunks' = parsed.hunks
              /\ tool_pc' = "loop"
              /\ tool_return' = tool_return
         ELSE /\ tool_hunks' = tool_hunks
              /\ tool_pc' = "returned"
              /\ tool_return' = ReturnedDict(FALSE, <<>>, <<>>, <<>>)
    /\ UNCHANGED <<tool_fs, tool_n, files_added, files_modified, files_deleted>>
    /\ UNCHANGED <<seekVars, deriveVars, applyVars, parseVars, busVars, idVars>>

\* one iteration of `for hunk in hunks`; an exception is caught and the
\* failure dict returned
ExecuteHunk ==
    /\ tool_pc = "loop"
    /\ tool_n < Len(tool_hunks)
    /\ \E e \in {ToolHunkEffect(tool_fs, tool_hunks[tool_n + 1])} :
         /\ tool_n' = tool_n + 1
         /\ tool_fs' = e.files
         /\ files_added' = files_added \o e.added
         /\ files_modified' = files_modified \o e.modified
         /\ files_deleted' = files_deleted \o e.deleted
         /\ tool_pc' = IF e.ok THEN "loop" ELSE "returned"
         /\ tool_return' = IF e.ok THEN tool_return
                           ELSE ReturnedDict(FALSE, <<>>, <<>>, <<>>)
    /\ UNCHANGED tool_hunks
    /\ UNCHANGED <<seekVars, deriveVars, applyVars, parseVars, busVars, idVars>>

\* the loop is over: return the success dict
ExecuteReturn ==
    /\ tool_pc = "loop"
    /\ tool_n = Len(tool_hunks)
    /\ tool_pc' = "returned"
    /\ tool_return' = ReturnedDict(TRUE, files_added, files_modified, files_deleted)
    /\ UNCHANGED <<tool_fs, tool_hunks, tool_n, files_added, files_modified,
                   files_deleted>>
    /\ UNCHANGED <<seekVars, deriveVars, applyVars, parseVars, busVars, idVars>>

NextAgree ==
    \/ ParseMarkers
    \/ ParseRecord
    \/ ParseReturn
    \/ PatchRaiseNoHunks
    \/ PatchApplyHunk
    \/ PatchReturn
    \/ ExecuteNoText
    \/ ExecuteParse
    \/ ExecuteHunk
    \/ ExecuteReturn

SpecAgree == InitAgree /\ [][NextAgree]_vars

----------------------------------------------------------------------------
(* EventBus of src/opencode/bus/index.py and specification SpecBus:        *)
(* subscribe, once, the returned unsubscribe functions and publish, whose  *)
(* two loops advance one callback at a time. A callback is one of three:   *)
(* "handler" keeps the event, "failing" raises, and "wrapped" is the       *)
(* function that once() subscribes for a callback that returns "done".     *)

CallbackSet == {"handler", "failing", "wrapped"}

PropertiesSet == {"data"}

\* list.remove(callback): the first occurrence goes, ValueError is passed over
RECURSIVE RemoveFirst(_, _)
RemoveFirst(list, callback) ==
    IF list = <<>> THEN <<>>
    ELSE IF list[1] = callback THEN Tail(list)
    ELSE <<list[1]>> \o RemoveFirst(Tail(list), callback)

\* the unsubscribe function that subscribe(key, callback) returned
unsubscribe(subs, key, callback) ==
    [subs EXCEPT ![key] = RemoveFirst(subs[key], callback)]

\* callback(payload) for the callback found in the list of key: the
\* subscriptions afterwards; an exception is passed over by publish
CallbackEffect(subs, key, callback) ==
    IF callback = "wrapped" THEN unsubscribe(subs, key, callback) ELSE subs

InitBus ==
    /\ IdleId
    /\ IdleSeek
    /\ IdleDerive
    /\ IdleApply
    /\ IdleParse
    /\ IdleTool
    /\ IdleBus

\* subscribe(key, callback), subscribe_all(callback) or once(key, callback)
Subscribe ==
    /\ bus_pc \in {"idle", "returned"}
    /\ Len(_subscriptions["t"]) + Len(_subscriptions["u"]) + Len(_subscriptions["*"])
          < MaxSubscriptions
    /\ \E key \in KeySet, callback \in CallbackSet :
         _subscriptions' = [_subscriptions EXCEPT ![key] = Append(@, callback)]
    /\ bus_pc' = "idle"
    /\ UNCHANGED <<event_type, properties, payload, bus_i, subscribed_at_call,
                   invoked, n_publish>>
    /\ UNCHANGED <<seekVars, deriveVars, applyVars, parseVars, toolVars, idVars>>

\* a call of an unsubscribe function between two publishes
Unsubscribe ==
    /\ bus_pc \in {"idle", "returned"}
    /\ \E key \in KeySet :
         \E k \in 1 .. Len(_subscriptions[key]) :
            _subscriptions' = unsubscribe(_subscriptions, key, _subscriptions[key][k])
    /\ bus_pc' = "idle"
    /\ UNCHANGED <<event_type, properties, payload, bus_i, subscribed_at_call,
                   invoked, n_publish>>
    /\ UNCHANGED <<seekVars, deriveVars, applyVars, parseVars, toolVars, idVars>>

\* publish(event_type, properties): the payload is built
PublishCall ==
    /\ bus_pc \in {"idle", "returned"}
    /\ n_publish < MaxPublishes
    /\ \E t \in EventTypeSet, props \in PropertiesSet :
         /\ event_type' = t
         /\ properties' = props
         /\ payload' = [type |-> t, properties |-> props]
    /\ bus_i' = 0
    /\ bus_pc' = "specific"
    /\ subscribed_at_call' = _subscriptions
    /\ invoked' = <<>>
    /\ n_publish' = n_publish + 1
    /\ UNCHANGED _subscriptions
    /\ UNCHANGED <<seekVars, deriveVars, applyVars, parseVars, toolVars, idVars>>

\* one iteration of `for callback in self._subscriptions.get(event_type, [])`
NotifySpecific ==
    /\ bus_pc = "specific"
    /\ bus_i < Len(_subscriptions[event_type])
    /\ invoked' = Append(invoked, <<_subscriptions[event_type][bus_i + 1], payload>>)
    /\ _subscriptions' = CallbackEffect(_subscriptions, event_type,
                                        _subscriptions[event_type][bus_i + 1])
    /\ bus_i' = bus_i + 1
    /\ UNCHANGED <<event_type, properties, payload, bus_pc, subscribed_at_call,
                   n_publish>>
    /\ UNCHANGED <<seekVars, deriveVars, applyVars, parseVars, toolVars, idVars>>

\* the iterator of the first loop is exhausted
EndSpecific ==
    /\ bus_pc = "specific"
    /\ bus_i >= Len(_subscriptions[event_type])
    /\ bus_i' = 0
    /\ bus_pc' = "wildcard"
    /\ UNCHANGED <<_subscriptions, event_type, properties, payload,
                   subscribed_at_call, invoked, n_publish>>
    /\ UNCHANGED <<seekVars, deriveVars, applyVars, parseVars, toolVars, idVars>>

\* one iteration of `for callback in self._subscriptions.get("*", [])`
NotifyWildcard ==
    /\ bus_pc = "wildcard"
    /\ bus_i < Len(_subscriptions["*"])
    /\ invoked' = Append(invoked, <<_subscriptions["*"][bus_i + 1], payload>>)
    /\ _subscriptions' = CallbackEffect(_subscriptions, "*",
                                        _subscriptions["*"][bus_i + 1])
    /\ bus_i' = bus_i + 1
    /\ UNCHANGED <<event_type, properties, payload, bus_pc, subscribed_at_call,
                   n_publish>>
    /\ UNCHANGED <<seekVars, deriveVars, applyVars, parseVars, toolVars, idVars>>

\* the iterator of the second loop is exhausted: publish returns
PublishReturn ==
    /\ bus_pc = "wildcard"
    /\ bus_i >= Len(_subscriptions["*"])
    /\ bus_pc' = "returned"
    /\ UNCHANGED <<_subscriptions, event_type, properties, payload, bus_i,
                   subscribed_at_call, invoked, n_publish>>
    /\ UNCHANGED <<seekVars, deriveVars, applyVars, parseVars, toolVars, idVars>>

NextBus ==
    \/ Subscribe
    \/ Unsubscribe
    \/ PublishCall
    \/ NotifySpecific
    \/ EndSpecific
    \/ NotifyWildcard
    \/ PublishReturn

SpecBus == InitBus /\ [][NextBus]_vars

----------------------------------------------------------------------------
(* The id module, src/opencode/id/id.py, and specification SpecId: calls   *)
(* of ascending and descending under a clock that never goes back.         *)

prefixes == [session |-> "ses", message |-> "msg", permission |-> "per",
             question |-> "que", user |-> "usr", part |-> "prt", pty |-> "pty",
             tool |-> "tool"]

\* a digit sequence without its leading zeros
RECURSIVE Normal(_)
Normal(d) == IF d # <<>> /\ Last(d) = 0 THEN Normal(Front(d)) ELSE d

\* d + n for a digit sequence d and an integer n >= 0
RECURSIVE AddInt(_, _)
AddInt(d, n) ==
    IF n = 0 THEN d
    ELSE IF d = <<>> THEN <<n % 16>> \o AddInt(<<>>, n \div 16)
    ELSE <<(d[1] + n) % 16>> \o AddInt(Tail(d), (d[1] + n) \div 16)

\* hexadecimal digit k (0 the least significant) of d, 0 past its length
DigitAt(d, k) == IF k < Len(d) THEN d[k + 1] ELSE 0

\* now = (current_timestamp * 0x1000) + _counter
NowOf(current_timestamp, counter) ==
    Normal(AddInt(<<0, 0, 0>> \o current_timestamp, counter))

\* (now >> (40 - 8 * i)) & 0xFF, of ~now when descending: the complement
\* turns each hexadecimal digit h of the 48 bits into 15 - h
TimeByte(now, descending_, i) ==
    IF descending_
    THEN (15 - DigitAt(now, 11 - 2 * i)) * 16 + (15 - DigitAt(now, 10 - 2 * i))
    ELSE DigitAt(now, 11 - 2 * i) * 16 + DigitAt(now, 10 - 2 * i)

HexChar(h) == SubSeq("0123456789abcdef", h + 1, h + 1)

\* time_bytes.hex() from byte i on
RECURSIVE HexFrom(_, _, _)
HexFrom(now, descending_, i) ==
    IF i > 5 THEN ""
    ELSE HexChar(TimeByte(now, descending_, i) \div 16)
         \o HexChar(TimeByte(now, descending_, i) % 16)
         \o HexFrom(now, descending_, i + 1)

\* what _random_base62(LENGTH - 12) may return, LENGTH being 26: any 14 base62
\* characters, of
\* which the model takes two
RandomSet == {"00000000000000", "Az09Az09Az09Az"}

\* create: the globals after the call
CounterAfter(current_timestamp) ==
    IF current_timestamp # _last_timestamp THEN 1 ELSE _counter + 1

\* create(prefix, descending) at the clock value current_timestamp with the
\* random characters random: the returned string
create(prefix, descending_, current_timestamp, random) ==
    prefixes[prefix] \o "_"
        \o HexFrom(NowOf(current_timestamp, CounterAfter(current_timestamp)),
                   descending_, 0)
        \o random

\* id.split("_")[0]: the characters before the first underscore
RECURSIVE BeforeUnderscore(_, _)
BeforeUnderscore(id, k) ==
    IF k >= Len(id) \/ CharAt(id, k) = "_" THEN Slice(id, 0, k)
    ELSE BeforeUnderscore(id, k + 1)

HexValue(c) == CHOOSE h \in 0 .. 15 : HexChar(h) = c

\* int(hex_part, 16) as a digit sequence
RECURSIVE IntOfHex(_)
IntOfHex(hex_part) ==
    IF hex_part = "" THEN <<>>
    ELSE Normal(<<HexValue(SubSeq(hex_part, Len(hex_part), Len(hex_part)))>>
                \o IntOfHex(SubSeq(hex_part, 1, Len(hex_part) - 1)))

\* encoded // 0x1000
FloorDiv0x1000(encoded) == SubSeq(encoded, 4, Len(encoded))

\* timestamp(id)
timestamp(id) ==
    FloorDiv0x1000(IntOfHex(Slice(id, Len(BeforeUnderscore(id, 0)) + 1,
                                  Len(BeforeUnderscore(id, 0)) + 13)))

PrefixSet == {"session", "tool"}

\* 5 ms, the last millisecond before 2^36, and 1700000000000 ms
\* (14 November 2023), as digit sequences
ClockStartSet ==
    {<<5>>,
     <<15, 15, 15, 15, 15, 15, 15, 15, 15>>,
     <<0, 0, 8, 6, 5, 14, 15, 12, 11, 8, 1>>}

InitId ==
    /\ IdleSeek
    /\ IdleDerive
    /\ IdleApply
    /\ IdleParse
    /\ IdleTool
    /\ IdleBus
    /\ clock \in ClockStartSet
    /\ _last_timestamp = <<>>
    /\ _counter = 0
    /\ issued = <<>>
    /\ n_ticks = 0

\* a millisecond passes
Tick ==
    /\ n_ticks < MaxTicks
    /\ clock' = Normal(AddInt(clock, 1))
    /\ n_ticks' = n_ticks + 1
    /\ UNCHANGED <<_last_timestamp, _counter, issued>>
    /\ UNCHANGED <<seekVars, deriveVars, applyVars, parseVars, toolVars, busVars>>

\* ascending(prefix): create(prefix, False)
Ascending ==
    /\ Len(issued) < MaxCalls
    /\ \E prefix \in PrefixSet, random \in RandomSet :
         issued' = Append(issued, [id |-> create(prefix, FALSE, clock, random),
                                   prefix |-> prefix, descending |-> FALSE,
                                   at |-> clock])
    /\ _counter' = CounterAfter(clock)
    /\ _last_timestamp' = clock
    /\ UNCHANGED <<clock, n_ticks>>
    /\ UNCHANGED <<seekVars, deriveVars, applyVars, parseVars, toolVars, busVars>>

\* descending(prefix): create(prefix, True)
Descending ==
    /\ Len(issued) < MaxCalls
    /\ \E prefix \in PrefixSet, random \in RandomSet :
         issued' = Append(issued, [id |-> create(prefix, TRUE, clock, random),
                                   prefix |-> prefix, descending |-> TRUE,
                                   at |-> clock])
    /\ _counter' = CounterAfter(clock)
    /\ _last_timestamp' = clock
    /\ UNCHANGED <<clock, n_ticks>>
    /\ UNCHANGED <<seekVars, deriveVars, applyVars, parseVars, toolVars, busVars>>

NextId ==
    \/ Tick
    \/ Ascending
    \/ Descending

SpecId == InitId /\ [][NextId]_vars

----------------------------------------------------------------------------
(* C1: with a non-empty pattern, find returns -1 exactly when no offset i  *)
(* with start_index <= i <= len(lines) - len(pattern) has every line of    *)
(* the window equal to the pattern line once both are stripped and         *)
(* normalized; otherwise it returns such an offset.                        *)

LooseEq(a, b) == _normalize_unicode(strip(a)) = _normalize_unicode(strip(b))

LooseMatchAt(lines, pattern, i) ==
    \A j \in 1 .. Len(pattern) : LooseEq(lines[i + j], pattern[j])

LooseOffsets(lines, pattern, start_index) ==
    {i \in start_index .. (Len(lines) - Len(pattern)) :
        LooseMatchAt(lines, pattern, i)}

C1_FindIffLooseMatch ==
    (sk_pc = "returned" /\ sk_pattern # <<>>) =>
        LET offs == LooseOffsets(sk_lines, sk_pattern, sk_start_index)
        IN /\ (sk_result = -1) <=> (offs = {})
           /\ (sk_result # -1) => (sk_result \in offs)

\* a match that only the normalized pass finds, away from offset 0
C1_Witness ==
    /\ sk_pc = "returned"
    /\ sk_pattern = <<"a", "'">>
    /\ sk_lines = <<"a", " a", "^">>
    /\ sk_result = 1

----------------------------------------------------------------------------
(* C2: applying the computed replacements yields exactly the original line *)
(* list with each located range [start, start + old_length), indices taken *)
(* in the original file, replaced by that chunk's new lines, for every     *)
(* chunk list on which location succeeds.                                  *)

\* the original lines with every range of reps (ascending) replaced
RECURSIVE SplicedFrom(_, _, _, _)
SplicedFrom(lines, reps, k, pos) ==
    IF k > Len(reps) THEN Slice(lines, pos, Len(lines))
    ELSE LET r == reps[k]
             stop == IF r[1] + r[2] > pos THEN r[1] + r[2] ELSE pos
         IN Slice(lines, pos, r[1]) \o r[3] \o SplicedFrom(lines, reps, k + 1, stop)

Spliced(lines, reps) == SplicedFrom(lines, reps, 1, 0)

C2_EachRangeReplaced ==
    (dn_pc \in {"join", "done"}) =>
        new_lines = Spliced(original_lines, replacements)

----------------------------------------------------------------------------
(* C3: while the chunks of one hunk are processed, the search cursor never *)
(* decreases, and every chunk with non-empty old lines is matched at an    *)
(* offset at or after the end of every earlier match, and after a line     *)
(* matching its own context when it has one, also when EOF-anchored.       *)

C3_CursorMonotonic ==
    [][(dn_pc = "loop" /\ n_chunks' = n_chunks + 1) =>
        /\ line_index' >= line_index
        /\ (dn_pc' = "loop" /\ chunk'.old_lines # <<>>) =>
              LET r == Last(replacements')
              IN /\ r[1] >= line_index
                 /\ line_index' = r[1] + r[2]
                 /\ \A k \in 1 .. Len(replacements) :
                        replacements[k][2] > 0 =>
                            replacements[k][1] + replacements[k][2] <= r[1]
                 /\ Truthy(chunk'.change_context) =>
                        \E k \in line_index .. (r[1] - 1) :
                            LooseEq(Nth(original_lines, k), chunk'.change_context)
      ]_vars

\* two chunks with the same old line, the second EOF-anchored, matched at
\* the two occurrences of that line
C3_Witness ==
    /\ dn_pc = "loop"
    /\ original_lines = <<"a", "a">>
    /\ chunk.old_lines = <<"a">>
    /\ chunk.is_end_of_file
    /\ Len(replacements) = 2
    /\ replacements[1][1] = 0 /\ replacements[1][2] = 1
    /\ replacements[2][1] = 1 /\ replacements[2][2] = 1

----------------------------------------------------------------------------
(* C4: the replacements returned for a file are sorted ascending by start  *)
(* index and pairwise non-overlapping: for consecutive replacements r, s,  *)
(* r.start + r.old_length <= s.start, also with pure insertions and with a *)
(* file whose last line is empty.                                          *)

C4_SortedNonOverlapping ==
    (dn_pc \in {"apply", "join", "done"}) =>
        \A k \in 1 .. (Len(replacements) - 1) :
            replacements[k][1] + replacements[k][2] <= replacements[k + 1][1]

----------------------------------------------------------------------------
(* C5: processing a chunk fails exactly when its context has no match at   *)
(* or after the cursor, or its non-empty old lines have no match at or     *)
(* after the cursor under any pass and none after one retry without a      *)
(* trailing empty old line; the retry drops the trailing empty new line.   *)

NoMatch(lines, pattern, cursor) ==
    pattern = <<>> \/ LooseOffsets(lines, pattern, cursor) = {}

C5_FailsIffNotLocated ==
    [][(dn_pc = "loop" /\ n_chunks' = n_chunks + 1) =>
        LET c == chunk'
            has_ctx == Truthy(c.change_context)
            no_ctx == has_ctx /\ NoMatch(original_lines, <<c.change_context>>, line_index)
            cursor == IF has_ctx
                      THEN _seek_sequence(original_lines, <<c.change_context>>,
                                          line_index, FALSE) + 1
                      ELSE line_index
            no_first == NoMatch(original_lines, c.old_lines, cursor)
            no_retry == \/ Last(c.old_lines) # ""
                        \/ NoMatch(original_lines, Front(c.old_lines), cursor)
            r == Last(replacements')
        IN /\ (dn_pc' = "failed") <=>
                  (no_ctx \/ (~no_ctx /\ c.old_lines # <<>> /\ no_first /\ no_retry))
           /\ (dn_pc' = "loop" /\ c.old_lines # <<>> /\ ~no_first) =>
                  (r[2] = Len(c.old_lines) /\ r[3] = c.new_lines)
           /\ (dn_pc' = "loop" /\ c.old_lines # <<>> /\ no_first) =>
                  (r[2] = Len(c.old_lines) - 1 /\ r[3] = (IF c.new_lines # <<>> /\ Last(c.new_lines) = ""
                           THEN Front(c.new_lines) ELSE c.new_lines))
      ]_vars

\* the second of two chunks with the same old lines is not found, neither as
\* written nor without its trailing empty line
C5_Witness ==
    /\ dn_pc = "failed"
    /\ n_chunks = 2
    /\ chunk.old_lines = <<"a", "">>
    /\ chunk.change_context = None
    /\ Len(replacements) = 1
    /\ replacements[1][2] = 2

----------------------------------------------------------------------------
(* C6: if hunk k fails (chunk or context not found, or target unreadable), *)
(* the file system when apply returns is the one produced by hunks 1..k-1: *)
(* the failing hunk changes no file, no later hunk runs, and the earlier   *)
(* hunks are not rolled back.                                              *)

C6_FailingHunkChangesNothing ==
    [][(ap_pc' = "raised" \/ ap_pc = "raised") => (fs' = fs)]_vars

\* the third hunk, an Update of p, fails on its chunk after an Add of q and an
\* Update of p were applied
C6_Witness ==
    /\ ap_pc = "raised"
    /\ ap_error = "lines"
    /\ n_hunks = 3
    /\ hunk.type = "update" /\ hunk.path = "p" /\ hunk.move_path = "q"
    /\ added = <<"q">>
    /\ modified = <<"p">>
    /\ fs = [x \in {"p", "q"} |-> IF x = "p" THEN "x\n" ELSE "x\n"]

----------------------------------------------------------------------------
(* C7: round trip: when every chunk replaces the located lines by the same *)
(* lines (old_lines = new_lines), unified_diff is "" and the new content   *)
(* is byte-for-byte the original content.                                  *)

C7_RoundTrip ==
    (/\ dn_pc = "done"
     /\ n_chunks = 1
     /\ chunk.old_lines = chunk.new_lines
     /\ \A k \in 1 .. Len(replacements) :
            replacements[k][3] =
                Slice(original_lines, replacements[k][1],
                      replacements[k][1] + replacements[k][2]))
        => (unified_diff = "" /\ new_content = original_content)

----------------------------------------------------------------------------
(* C8: on success new_content ends with exactly one trailing newline: its  *)
(* last character is a line feed and the character before it is not.       *)

C8_OneTrailingNewline ==
    (dn_pc = "done") =>
        /\ Len(new_content) >= 1
        /\ CharAt(new_content, Len(new_content) - 1) = "\n"
        /\ Len(new_content) >= 2 => CharAt(new_content, Len(new_content) - 2) # "\n"

----------------------------------------------------------------------------
(* C9: parse fails whenever no line is exactly equal to the Begin marker,  *)
(* or none is exactly equal to the End marker, or the first Begin line is  *)
(* not before the first End line; it does not fail when a Begin line is    *)
(* followed by an End line; and a failing parse produces no hunk. The      *)
(* lines are those the parser works on, after unwrapping.                  *)

ExactAt(lines, marker) == {k \in 1 .. Len(lines) : lines[k] = marker}

C9_FailsUnlessExactMarkers ==
    pp_pc \in {"raised", "loop", "returned"} =>
        /\ ( \/ ExactAt(pp_lines, begin_marker) = {}
             \/ ExactAt(pp_lines, end_marker) = {}
             \/ SetMin(ExactAt(pp_lines, begin_marker))
                    >= SetMin(ExactAt(pp_lines, end_marker)) )
           => pp_pc = "raised"
        /\ (\E b \in ExactAt(pp_lines, begin_marker) :
               \E e \in ExactAt(pp_lines, end_marker) : b < e)
           => pp_pc # "raised"
        /\ pp_pc = "raised" => hunks = <<>>

(* C9, amended: parse fails exactly when, among the lines of the trimmed   *)
(* and unwrapped text, no line that equals the Begin marker once trimmed   *)
(* of surrounding whitespace comes before the first line that equals the   *)
(* End marker once trimmed (either marker missing, or the first Begin not  *)
(* before the first End); a failing parse produces no hunk.                *)

TrimmedAt(lines, marker) == {k \in 1 .. Len(lines) : strip(lines[k]) = marker}

BeginBeforeFirstEnd(lines) ==
    \E b \in TrimmedAt(lines, begin_marker) :
        \E e \in TrimmedAt(lines, end_marker) :
            /\ b < e
            /\ \A k \in TrimmedAt(lines, end_marker) : e <= k
            /\ \A k \in TrimmedAt(lines, begin_marker) : b <= k

C9_FailsIffTrimmedMarkersOutOfOrder ==
    pp_pc \in {"raised", "loop", "returned"} =>
        /\ pp_pc = "raised" <=> ~BeginBeforeFirstEnd(pp_lines)
        /\ pp_pc = "raised" => hunks = <<>>

\* a failing parse of a text that holds both markers, a Begin after an End
C9_Witness ==
    /\ pp_pc = "raised"
    /\ \E e \in TrimmedAt(pp_lines, end_marker) :
           \E b \in TrimmedAt(pp_lines, begin_marker) :
               \E e2 \in TrimmedAt(pp_lines, end_marker) : e < b /\ b < e2

----------------------------------------------------------------------------
(* C10: parse returns exactly one hunk for each record header line (Add    *)
(* File, Delete File, Update File) strictly between the Begin and End      *)
(* markers, in the order of the headers; and a line met where a header is  *)
(* expected that is not a record header is skipped by advancing one line,  *)
(* with no failure and no hunk.                                            *)

RecordKinds ==
    <<[prefix |-> "*** Add File:", type |-> "add"],
      [prefix |-> "*** Delete File:", type |-> "delete"],
      [prefix |-> "*** Update File:", type |-> "update"]>>

IsRecordHeader(line) == \E j \in 1 .. 3 : StartsWith(line, RecordKinds[j].prefix)

HeaderKey(line) ==
    [type |-> RecordKinds[CHOOSE j \in 1 .. 3 : StartsWith(line, RecordKinds[j].prefix)].type,
     path |-> strip(AfterColon(line))]

\* the headers among the lines with 1-based positions lo .. hi, in order
RECURSIVE HeadersIn(_, _, _)
HeadersIn(lines, lo, hi) ==
    IF lo > hi THEN <<>>
    ELSE IF IsRecordHeader(lines[lo])
    THEN <<HeaderKey(lines[lo])>> \o HeadersIn(lines, lo + 1, hi)
    ELSE HeadersIn(lines, lo + 1, hi)

HunkKeys(hs) == [j \in 1 .. Len(hs) |-> [type |-> hs[j].type, path |-> hs[j].path]]

C10_OneHunkPerHeaderInOrder ==
    /\ [](pp_pc = "returned" =>
            HunkKeys(hunks) = HeadersIn(pp_lines, begin_idx + 2, end_idx))
    /\ [][(pp_pc = "loop" /\ pp_pc' = "loop" /\ ~IsRecordHeader(Nth(pp_lines, pp_i)))
            => (pp_i' = pp_i + 1 /\ hunks' = hunks)]_vars

\* a returned parse with a skipped line right after Begin and two hunks of
\* different kinds
C10_Witness ==
    /\ pp_pc = "returned"
    /\ Len(hunks) = 2
    /\ hunks[1].type # hunks[2].type
    /\ ~IsRecordHeader(Nth(pp_lines, begin_idx + 1))
    /\ begin_idx + 1 < end_idx

----------------------------------------------------------------------------
(* C11: for every chunk parsed from an Update record, old_lines is the     *)
(* chunk's body lines that start with a space or `-`, first character      *)
(* removed, and new_lines its body lines that start with a space or `+`,   *)
(* first character removed, both in document order, the body running up to *)
(* the next `@@` or `***` line; the context is the trimmed text after `@@` *)
(* and an empty context is none.                                           *)

HasPrefixIn(line, S) == \E pre \in S : StartsWith(line, pre)

\* the first position (1-based) at or after k of a line with a prefix in S,
\* or one past the last line
NextStop(lines, k, S) ==
    SetMin({q \in k .. Len(lines) : HasPrefixIn(lines[q], S)} \cup {Len(lines) + 1})

\* the positions lo .. hi of the lines with a prefix in S, ascending
RECURSIVE PositionsOf(_, _, _, _)
PositionsOf(lines, lo, hi, S) ==
    IF lo > hi THEN <<>>
    ELSE IF HasPrefixIn(lines[lo], S) THEN <<lo>> \o PositionsOf(lines, lo + 1, hi, S)
    ELSE PositionsOf(lines, lo + 1, hi, S)

\* the lines at lo .. hi with a prefix in S, first character removed
RECURSIVE KeepLines(_, _, _, _)
KeepLines(lines, lo, hi, S) ==
    IF lo > hi THEN <<>>
    ELSE IF HasPrefixIn(lines[lo], S)
    THEN <<SubSeq(lines[lo], 2, Len(lines[lo]))>> \o KeepLines(lines, lo + 1, hi, S)
    ELSE KeepLines(lines, lo + 1, hi, S)

TrimmedContext(line) ==
    IF strip(SubSeq(line, 3, Len(line))) = "" THEN None
    ELSE strip(SubSeq(line, 3, Len(line)))

\* what the claim says of the chunk whose `@@` line is at position at
ExpectedChunk(lines, at) ==
    [old_lines |-> KeepLines(lines, at + 1, NextStop(lines, at + 1, {"@@", "***"}) - 1,
                             {" ", "-"}),
     new_lines |-> KeepLines(lines, at + 1, NextStop(lines, at + 1, {"@@", "***"}) - 1,
                             {" ", "+"}),
     change_context |-> TrimmedContext(lines[at])]

\* the chunks of the Update record whose body starts at position start
ExpectedChunks(lines, start) ==
    LET ats == PositionsOf(lines, start, NextStop(lines, start, {"***"}) - 1, {"@@"})
    IN [j \in 1 .. Len(ats) |-> ExpectedChunk(lines, ats[j])]

ChunkViews(chunks) ==
    [j \in 1 .. Len(chunks) |->
        [old_lines |-> chunks[j].old_lines, new_lines |-> chunks[j].new_lines,
         change_context |-> chunks[j].change_context]]

RecordPrefixes == {"*** Add File:", "*** Delete File:", "*** Update File:"}

\* the positions of the record headers between the markers
HeaderPositions == PositionsOf(pp_lines, begin_idx + 2, end_idx, RecordPrefixes)

\* where the body of the Update record with its header at position at starts
UpdateBodyStart(lines, at) ==
    IF at + 1 <= Len(lines) /\ StartsWith(lines[at + 1], "*** Move to:")
    THEN at + 2 ELSE at + 1

C11_ChunkLinesByPrefix ==
    pp_pc = "returned" =>
        /\ Len(hunks) = Len(HeaderPositions)
        /\ \A j \in 1 .. Len(hunks) :
              hunks[j].type = "update" =>
                  ChunkViews(hunks[j].chunks)
                      = ExpectedChunks(pp_lines, UpdateBodyStart(pp_lines, HeaderPositions[j]))

\* a chunk with a context, an unchanged line, a removed line and an added line
C11_Witness ==
    /\ pp_pc = "returned"
    /\ Len(hunks) = 1
    /\ hunks[1].type = "update"
    /\ Len(hunks[1].chunks) = 1
    /\ hunks[1].chunks[1].change_context = "c"
    /\ hunks[1].chunks[1].old_lines = <<"a", "a">>
    /\ hunks[1].chunks[1].new_lines = <<"a", "x">>

----------------------------------------------------------------------------
(* C12: whenever the body of a chunk of an Update record is followed by a  *)
(* line exactly equal to `*** End of File`, the parsed chunk has           *)
(* is_end_of_file true, the marker line is in neither old_lines nor        *)
(* new_lines, and the chunk ends at that line.                             *)

\* the positions of the `@@` lines of the Update record whose body starts at
\* position start
ChunkPositions(lines, start) ==
    PositionsOf(lines, start, NextStop(lines, start, {"***"}) - 1, {"@@"})

\* the body of the chunk at position at is followed by the End of File line
FollowedByEndOfFile(lines, at) ==
    /\ NextStop(lines, at + 1, {"@@", "***"}) <= Len(lines)
    /\ lines[NextStop(lines, at + 1, {"@@", "***"})] = "*** End of File"

NotAmong(line, ls) == \A k \in 1 .. Len(ls) : ls[k] # line

C12_EndOfFileAnchors ==
    pp_pc = "returned" =>
        \A j \in 1 .. Len(hunks) :
            hunks[j].type = "update" =>
                LET ats == ChunkPositions(pp_lines,
                                          UpdateBodyStart(pp_lines, HeaderPositions[j]))
                IN \A c \in 1 .. Len(ats) :
                       FollowedByEndOfFile(pp_lines, ats[c]) =>
                           /\ c <= Len(hunks[j].chunks)
                           /\ hunks[j].chunks[c].is_end_of_file
                           /\ NotAmong("*** End of File", hunks[j].chunks[c].old_lines)
                           /\ NotAmong("*** End of File", hunks[j].chunks[c].new_lines)

----------------------------------------------------------------------------
(* C13: applying a patch with a record `*** Add File: P` followed by       *)
(* `+`-prefixed lines creates file P whose content is exactly those lines  *)
(* with the leading `+` removed, joined by a line feed, with no newline    *)
(* appended, overwriting any existing file, and records P under added.     *)

\* the `+` lines of the body of the record with its header at position at, the
\* body running up to the next `***` line
AddedLines(lines, at) ==
    KeepLines(lines, at + 1, NextStop(lines, at + 1, {"***"}) - 1, {"+"})

C13_AddWritesPlusLines ==
    [][(pp_pc = "returned" /\ n_hunks' = n_hunks + 1
          /\ StartsWith(pp_lines[HeaderPositions[n_hunks']], "*** Add File:"))
        => LET P == strip(AfterColon(pp_lines[HeaderPositions[n_hunks']]))
           IN /\ ap_pc' = "run"
              /\ DOMAIN fs' = DOMAIN fs \cup {P}
              /\ fs'[P] = join(AddedLines(pp_lines, HeaderPositions[n_hunks']))
              /\ \A x \in DOMAIN fs \ {P} : fs'[x] = fs[x]
              /\ added' = Append(added, P)
              /\ modified' = modified /\ deleted' = deleted
      ]_vars

\* an existing file p overwritten by an Add record with two content lines
C13_Witness ==
    /\ ap_pc = "returned"
    /\ pp_lines = <<"*** Begin Patch", "*** Add File: p", "+x", "+x", "*** End Patch">>
    /\ fs = [x \in {"p"} |-> "x\nx"]
    /\ ap_result.added = <<"p">>

----------------------------------------------------------------------------
(* C14: a Delete hunk never fails because its file is missing: whether or  *)
(* not the path exists beforehand, apply continues, the path does not      *)
(* exist afterwards, and the path is recorded under deleted in the         *)
(* returned AffectedPaths.                                                 *)

----------------------------------------------------------------------------
(* C15: an Update hunk whose path does not exist fails with an error that  *)
(* names the path; it creates no file at path or at move_path, and the     *)
(* path is not recorded as modified.                                       *)

C15_UpdateOfMissingFails ==
    [][(n_hunks' = n_hunks + 1 /\ hunk'.type = "update"
          /\ hunk'.path \notin DOMAIN fs)
        => /\ ap_pc' = "raised"
           /\ ap_error' = "read"
           /\ ap_result'.kind = "ValueError"
           /\ ap_result'.file_path = hunk'.path
           /\ fs' = fs
           /\ modified' = modified /\ added' = added /\ deleted' = deleted
      ]_vars

\* an Update of the missing p with the missing q as its move target
C15_Witness ==
    /\ ap_pc = "raised"
    /\ ap_error = "read"
    /\ hunk.type = "update" /\ hunk.path = "p" /\ hunk.move_path = "q"
    /\ ap_result.file_path = "p"
    /\ DOMAIN fs = {}

----------------------------------------------------------------------------
(* C16: after a successful Update hunk with move_path set, for every pair  *)
(* of path and move_path, the file at move_path exists and holds the new   *)
(* content, the original path no longer exists, and move_path is recorded  *)
(* under modified; without move_path the original path holds the new       *)
(* content and is recorded under modified. Where the two paths are the     *)
(* same file, the formula asks only that it exists with the new content.   *)

C16_MoveKeepsTheNewContent ==
    [][(n_hunks' = n_hunks + 1 /\ hunk'.type = "update" /\ ap_pc' = "run")
        => LET content == derive_new_contents_from_chunks(fs, hunk'.path,
                                                           hunk'.chunks).content
               target == IF Truthy(hunk'.move_path) THEN hunk'.move_path
                         ELSE hunk'.path
           IN /\ target \in DOMAIN fs'
              /\ fs'[target] = content
              /\ (target # hunk'.path) => (hunk'.path \notin DOMAIN fs')
              /\ modified' = Append(modified, target)
      ]_vars

----------------------------------------------------------------------------
(* C17: apply called with an empty hunk list fails with an error and       *)
(* changes no file; so applying a patch document that parses to zero hunks *)
(* (for example one with only the Begin and End markers) returns a         *)
(* failure, never a successful no-op.                                      *)

C17_NoHunksIsAnError ==
    /\ [](ap_pc = "returned" => hunks # <<>>)
    /\ [][(pp_pc = "returned" /\ hunks = <<>>)
            => /\ ap_pc' = "raised"
               /\ ap_error' = "no hunks"
               /\ ap_result'.kind = "ValueError"
               /\ fs' = fs
          ]_vars

\* the document with only the two markers, applied where files exist
C17_Witness ==
    /\ pp_lines = <<"*** Begin Patch", "*** End Patch">>
    /\ ap_pc = "raised"
    /\ ap_error = "no hunks"
    /\ DOMAIN fs = {"p", "q"}

----------------------------------------------------------------------------
(* C18: in the AffectedPaths returned by a completed application, each     *)
(* path appears in exactly one of added, modified, deleted, and at most    *)
(* once within it, even when several hunks name the same path.             *)

Occurrences(ls, x) == Cardinality({k \in 1 .. Len(ls) : ls[k] = x})

C18_EachPathInOneList ==
    (ap_pc = "returned") =>
        \A x \in PathSet :
            Occurrences(ap_result.added, x) + Occurrences(ap_result.modified, x)
                + Occurrences(ap_result.deleted, x) <= 1

----------------------------------------------------------------------------
(* C19: when the application fails at hunk k > 1, the caller receives the  *)
(* AffectedPaths accumulated for hunks 1..k-1, so the reported paths are   *)
(* the paths changed on disk.                                              *)

C19_FailureReportsAccumulatedPaths ==
    (ap_pc = "raised" /\ n_hunks > 1) =>
        /\ ap_result.added = added
        /\ ap_result.modified = modified
        /\ ap_result.deleted = deleted

----------------------------------------------------------------------------
(* C20: every hunk returned by parse_patch has a non-empty path: a record  *)
(* header whose path is empty after trimming produces no hunk.             *)

C20_HunkPathsNonEmpty ==
    \A j \in 1 .. Len(hunks) : hunks[j].path # ""

----------------------------------------------------------------------------
(* C21: every Update hunk returned by parse has a non-empty chunk list: an *)
(* Update record with no `@@` line, or whose body lines come before the    *)
(* first `@@`, yields no Update hunk with zero chunks.                     *)

C21_UpdateHunksHaveChunks ==
    \A j \in 1 .. Len(hunks) :
        hunks[j].type = "update" => hunks[j].chunks # <<>>

----------------------------------------------------------------------------
(* C22: find tries the comparisons in the order exact, right-trim,         *)
(* full-trim, normalized and returns the result of the first of them that  *)
(* has a match in the search range: an exact match at an offset at or      *)
(* after start_index wins over a tolerant match at a smaller offset, and   *)
(* without EOF anchoring the smallest offset of the winning comparison is  *)
(* returned.                                                               *)

\* the k-th comparison, k = 1 (exact) .. 4 (normalized)
EqualUnder(k, a, b) ==
    CASE k = 1 -> a = b
      [] k = 2 -> rstrip(a) = rstrip(b)
      [] k = 3 -> strip(a) = strip(b)
      [] k = 4 -> _normalize_unicode(strip(a)) = _normalize_unicode(strip(b))

\* the offsets of the search range where the pattern matches under the k-th
\* comparison
OffsetsUnder(k, lines, pattern, start_index) ==
    {i \in start_index .. (Len(lines) - Len(pattern)) :
        \A j \in 1 .. Len(pattern) : EqualUnder(k, lines[i + j], pattern[j])}

\* the first comparison with a match, 0 if there is none
WinningPass(lines, pattern, start_index) ==
    IF \A k \in 1 .. 4 : OffsetsUnder(k, lines, pattern, start_index) = {} THEN 0
    ELSE SetMin({k \in 1 .. 4 : OffsetsUnder(k, lines, pattern, start_index) # {}})

C22_FirstPassWins ==
    (sk_pc = "returned" /\ sk_pattern # <<>>
       /\ WinningPass(sk_lines, sk_pattern, sk_start_index) # 0) =>
        LET offs == OffsetsUnder(WinningPass(sk_lines, sk_pattern, sk_start_index),
                                 sk_lines, sk_pattern, sk_start_index)
        IN /\ sk_result \in offs
           /\ ~sk_eof => sk_result = SetMin(offs)

\* the exact match at offset 1 is returned although the line at offset 0
\* matches once right-trimmed
C22_Witness ==
    /\ sk_pc = "returned"
    /\ sk_lines = <<"a ", "a">>
    /\ sk_pattern = <<"a">>
    /\ sk_start_index = 0
    /\ ~sk_eof
    /\ sk_result = 1

----------------------------------------------------------------------------
(* C23: with eof_anchored true, within the pass that succeeds, find        *)
(* returns len(lines) - len(pattern) whenever the pattern matches there    *)
(* and that offset is at or after start_index, even if it also matches at  *)
(* a smaller offset; otherwise it returns the first matching offset from   *)
(* start_index on, which may be away from the end of the file.             *)

C23_EndOfFileFirst ==
    (sk_pc = "returned" /\ sk_pattern # <<>> /\ sk_eof
       /\ WinningPass(sk_lines, sk_pattern, sk_start_index) # 0) =>
        LET offs == OffsetsUnder(WinningPass(sk_lines, sk_pattern, sk_start_index),
                                 sk_lines, sk_pattern, sk_start_index)
            from_end == Len(sk_lines) - Len(sk_pattern)
        IN IF from_end \in offs THEN sk_result = from_end
           ELSE sk_result = SetMin(offs)

\* the pattern matches at offsets 1 and 2 of the range and the end is returned
C23_Witness ==
    /\ sk_pc = "returned"
    /\ sk_lines = <<"a", "a", "a">>
    /\ sk_pattern = <<"a">>
    /\ sk_start_index = 1
    /\ sk_eof
    /\ sk_result = 2

----------------------------------------------------------------------------
(* C24: a pure insertion (empty old_lines) whose context is located at     *)
(* line k is positioned by that context: its new_lines are inserted at the *)
(* cursor position k + 1, not at the end of the file.                      *)

C24_InsertionAtContext ==
    [][(dn_pc = "loop" /\ n_chunks' = n_chunks + 1 /\ dn_pc' = "loop"
          /\ chunk'.old_lines = <<>> /\ Truthy(chunk'.change_context))
        => LET k == _seek_sequence(original_lines, <<chunk'.change_context>>,
                                   line_index, FALSE)
           IN /\ line_index' = k + 1
              /\ Last(replacements') = <<k + 1, 0, chunk'.new_lines>>
      ]_vars

\* C25: a chunk with no old lines and no context records the replacement
\* (insertion index, 0, new_lines), the index being the line count of the file
\* or one less when its last line is the empty string, and leaves the cursor
\* where it was; when every chunk is such an insertion the sort keeps the
\* replacements in document order and the output is the file with the chunks'
\* new lines, in document order, put in at that index and no file line removed.
EndInsertionIndex ==
    IF original_lines # <<>> /\ Last(original_lines) = ""
    THEN Len(original_lines) - 1 ELSE Len(original_lines)

RECURSIVE SegmentsInOrder(_)
SegmentsInOrder(reps) ==
    IF reps = <<>> THEN <<>> ELSE SegmentsInOrder(Front(reps)) \o Last(reps)[3]

OnlyEndInsertions(reps) ==
    \A k \in 1 .. Len(reps) : reps[k][1] = EndInsertionIndex /\ reps[k][2] = 0

C25_InsertionsAtEndInOrder ==
    [][/\ (dn_pc = "loop" /\ n_chunks' = n_chunks + 1 /\ dn_pc' = "loop"
             /\ chunk'.old_lines = <<>> /\ ~Truthy(chunk'.change_context))
          => /\ replacements' = Append(replacements, <<EndInsertionIndex, 0, chunk'.new_lines>>)
             /\ line_index' = line_index
       /\ (dn_pc = "loop" /\ dn_pc' = "apply" /\ OnlyEndInsertions(replacements))
          => replacements' = replacements
       /\ (dn_pc = "apply" /\ dn_pc' = "join" /\ OnlyEndInsertions(replacements))
          => new_lines' = SubSeq(original_lines, 1, EndInsertionIndex)
                            \o SegmentsInOrder(replacements)
                            \o SubSeq(original_lines, EndInsertionIndex + 1, Len(original_lines))
      ]_vars

C25_Witness ==
    /\ dn_pc = "join"
    /\ original_lines = <<"a", "">>
    /\ replacements = <<<<1, 0, <<"x", "">>>>, <<1, 0, <<"y">>>>>>
    /\ new_lines = <<"a", "x", "", "y", "">>

\* C26: each hunk is applied to the file system the earlier hunks of the call
\* left behind. An Update of P right after an Add of P is derived from the
\* contents the Add wrote; an Update of Q right after an Update that moved a
\* file to Q finds the file at Q and is not refused for a missing file; an
\* Update of P right after a Delete of P raises and changes nothing.
UpdateOfAdded(add_hunk, update_hunk) ==
    derive_new_contents_from_chunks([x \in {add_hunk.path} |-> add_hunk.contents],
                                    add_hunk.path, update_hunk.chunks)

C26_LaterHunksSeeEarlierEffects ==
    [][(ap_pc = "run" /\ n_hunks' = n_hunks + 1 /\ hunk'.type = "update")
       => /\ (hunk.type = "add" /\ hunk'.path = hunk.path /\ hunk'.move_path = None)
             => /\ (ap_pc' = "run") = UpdateOfAdded(hunk, hunk').ok
                /\ UpdateOfAdded(hunk, hunk').ok
                   => fs' = WriteText(fs, hunk.path, UpdateOfAdded(hunk, hunk').content)
          /\ (hunk.type = "update" /\ Truthy(hunk.move_path)
                /\ hunk'.path = hunk.move_path)
             => /\ hunk'.path \in DOMAIN fs
                /\ ap_error' # "read"
          /\ (hunk.type = "delete" /\ hunk'.path = hunk.path)
             => /\ ap_pc' = "raised"
                /\ fs' = fs
      ]_vars

\* C27: frame of an Update. With the replacements the chunks located, an
\* original line at position i moves by the summed growth of the replacements
\* that start at or before i. The result of applying them has the original
\* count minus the old lengths plus the new lengths; every original line
\* outside all the located ranges is found, text unchanged, at its moved
\* position; and at the moved start of each located range the result holds
\* that chunk's new lines.
RECURSIVE GrowthUpTo(_, _, _)
GrowthUpTo(reps, k, i) ==
    IF k = 0 THEN 0
    ELSE GrowthUpTo(reps, k - 1, i)
         + (IF reps[k][1] <= i THEN Len(reps[k][3]) - reps[k][2] ELSE 0)

RECURSIVE NewLinesBefore(_, _)
NewLinesBefore(reps, k) ==
    IF k <= 1 THEN 0
    ELSE NewLinesBefore(reps, k - 1) + Len(reps[k - 1][3]) - reps[k - 1][2]

InLocatedRange(reps, i) ==
    \E k \in 1 .. Len(reps) : reps[k][1] <= i /\ i < reps[k][1] + reps[k][2]

C27_CountOfLines ==
    (dn_pc \in {"join", "done"}) =>
        Len(new_lines) = Len(original_lines)
                           + GrowthUpTo(replacements, Len(replacements), Len(original_lines))

C27_OutsideKept ==
    (dn_pc \in {"join", "done"}) =>
        \A i \in 0 .. (Len(original_lines) - 1) :
            ~InLocatedRange(replacements, i) =>
                Nth(new_lines, i + GrowthUpTo(replacements, Len(replacements), i))
                    = Nth(original_lines, i)

C27_RangesReplaced ==
    (dn_pc \in {"join", "done"}) =>
        \A k \in 1 .. Len(replacements) :
            /\ replacements[k][1] + NewLinesBefore(replacements, k) >= 0
            /\ Slice(new_lines,
                     replacements[k][1] + NewLinesBefore(replacements, k),
                     replacements[k][1] + NewLinesBefore(replacements, k)
                         + Len(replacements[k][3]))
                   = replacements[k][3]

C27_UpdateFrame ==
    /\ C27_CountOfLines
    /\ C27_OutsideKept
    /\ C27_RangesReplaced

\* C28: once apply_patch and execute have both finished on the same patch
\* text and the same files, the two file systems are equal, execute reports
\* success = false exactly when apply_patch raised, and when apply_patch
\* returned, the three path lists of the dict are those of its AffectedPaths.
C28_ToolAgreesWithLibrary ==
    (LibraryDone /\ tool_pc = "returned") =>
        /\ tool_fs = fs
        /\ tool_return.success = (ap_result.kind = "AffectedPaths")
        /\ ap_result.kind = "AffectedPaths" =>
              /\ tool_return.files_added = ap_result.added
              /\ tool_return.files_modified = ap_result.modified
              /\ tool_return.files_deleted = ap_result.deleted

\* C29: when publish returns, every call it made carried the payload
\* {type, properties} of its arguments, and each callback was called once for
\* each of its subscriptions to the event type and to "*" that stood when
\* publish was called, so a callback with no subscription left was not called.
TimesIn(list, x) == Cardinality({k \in 1 .. Len(list) : list[k] = x})

C29_EverySubscriberInvokedOnce ==
    (bus_pc = "returned") =>
        /\ \A k \in 1 .. Len(invoked) :
              invoked[k][2] = [type |-> event_type, properties |-> properties]
        /\ \A callback \in CallbackSet :
              TimesIn([k \in 1 .. Len(invoked) |-> invoked[k][1]], callback)
                  = TimesIn(subscribed_at_call[event_type], callback)
                      + TimesIn(subscribed_at_call["*"], callback)

\* C30: every ID that ascending(prefix) returned starts with the code of the
\* prefix and an underscore, timestamp(id) is the clock value of its call, and
\* of any two such IDs the later one has the greater 12-digit time field.
TimeField(entry) ==
    Slice(entry.id, Len(prefixes[entry.prefix]) + 1, Len(prefixes[entry.prefix]) + 13)

\* a < b for two strings of hexadecimal digits of the same length
RECURSIVE HexLess(_, _)
HexLess(a, b) ==
    IF a = "" THEN FALSE
    ELSE IF SubSeq(a, 1, 1) # SubSeq(b, 1, 1)
    THEN HexValue(SubSeq(a, 1, 1)) < HexValue(SubSeq(b, 1, 1))
    ELSE HexLess(SubSeq(a, 2, Len(a)), SubSeq(b, 2, Len(b)))

C30_AscendingIdsIncrease ==
    \A k \in 1 .. Len(issued) :
        ~issued[k].descending =>
            /\ StartsWith(issued[k].id, prefixes[issued[k].prefix] \o "_")
            /\ Len(TimeField(issued[k])) = 12
            /\ timestamp(issued[k].id) = issued[k].at
            /\ \A j \in 1 .. (k - 1) :
                  ~issued[j].descending =>
                      HexLess(TimeField(issued[j]), TimeField(issued[k]))
====
